---- MODULE Spec2Model ----
(***************************************************************************)
(* A model of the qsolve deduction engine: Board, SolveState, the          *)
(* heuristic catalog, the strategy selector next_heuristic and the         *)
(* SolveIter iterator.                                                     *)
(*                                                                         *)
(* Conventions.  Option<T> is a sequence of length at most one: None is    *)
(* <<>> and Some(v) is <<v>>.  A Coord is a pair <<row, col>>, zero-       *)
(* indexed as in the source.  Vec<T> is a sequence, so the source index    *)
(* idx is position idx + 1.  A CoordSet / LineSet / SquareColorSet of      *)
(* in-range elements is a set.  A reference into the catalog slice         *)
(* (&dyn Heuristic) is the position of the entry in the catalog.           *)
(***************************************************************************)
EXTENDS Integers, Sequences, FiniteSets, TLC

\* the fields of SolveIter (solve_state is board plus squares)
VARIABLES board, squares, solve_strategy, heuristics, done

\* what the caller has observed: the SolveState handed to solve_iter, the
\* items yielded so far, the result of the latest pull, the number of pulls
\* and the number of them that returned None
VARIABLES initial, yielded, last_pull, pulls, none_pulls

\* a call of a constructor (Board::new or SolveState::from) on external input:
\* the function, its arguments, how the call has ended and what it returned
VARIABLES call

vars == <<board, squares, solve_strategy, heuristics, done,
          initial, yielded, last_pull, pulls, none_pulls, call>>

(* ---------------------------- bounds ----------------------------------- *)

\* Pre-supplied annotations of a QueensFile mark at most MaxPrefilled squares
MaxPrefilled == 2

\* ... chosen among the first PrefillCells squares in row-major order
PrefillCells == 5

\* pulls made after the sequence has ended
MaxNonePulls == 2

\* Board::new is called with a size of at most MaxNewSize
MaxNewSize == 3

\* ... and a color vector of at most MaxColorsLen entries
MaxColorsLen == 5

\* SolveState::from is called on annotations marking at most MaxMarked squares
MaxMarked == 2

\* elements a LineSet or CoordSet is built from
MaxElems == 3

\* times a set is iterated
MaxPasses == 2

\* two iterators are built on annotations marking at most PairMarked of the
\* first PairMarked squares
PairMarked == 1

(* ---------------------------- Option ----------------------------------- *)

None == <<>>

Some(v) == <<v>>

is_some(o) == o /= <<>>

unwrap(o) == o[1]

(* ---------------------------- Board ------------------------------------ *)

coord_to_idx(size, coord) == coord[1] * size + coord[2]

idx_to_coord(size, idx) == <<idx \div size, idx % size>>

all_coords_of(size) == (0 .. size - 1) \X (0 .. size - 1)

color_in(size, colors, coord) == colors[coord_to_idx(size, coord) + 1]

\* compute_queen_borders without the lower-right diagonal neighbour
compute_queen_borders_three_diagonals(size, colors) ==
    [i \in 1 .. size * size |->
        LET queen == idx_to_coord(size, i - 1)
            col == {<<r, queen[2]>> : r \in 0 .. size - 1} \ {queen}
            row == {<<queen[1], c>> : c \in 0 .. size - 1} \ {queen}
            clr == {coord \in all_coords_of(size) :
                       color_in(size, colors, coord) = color_in(size, colors, queen)}
                   \ {queen}
            ul == IF queen[1] > 0 /\ queen[2] > 0
                  THEN {<<queen[1] - 1, queen[2] - 1>>} ELSE {}
            ur == IF queen[1] > 0 /\ queen[2] < size - 1
                  THEN {<<queen[1] - 1, queen[2] + 1>>} ELSE {}
            dl == IF queen[1] < size - 1 /\ queen[2] > 0
                  THEN {<<queen[1] + 1, queen[2] - 1>>} ELSE {}
        IN  col \cup row \cup clr \cup ul \cup ur \cup dl]

\* Board::compute_queen_borders: column, row, color, four diagonal neighbours
compute_queen_borders(size, colors) ==
    [i \in 1 .. size * size |->
        LET queen == idx_to_coord(size, i - 1)
            col == {<<r, queen[2]>> : r \in 0 .. size - 1} \ {queen}
            row == {<<queen[1], c>> : c \in 0 .. size - 1} \ {queen}
            clr == {coord \in all_coords_of(size) :
                       color_in(size, colors, coord) = color_in(size, colors, queen)}
                   \ {queen}
            ul == IF queen[1] > 0 /\ queen[2] > 0
                  THEN {<<queen[1] - 1, queen[2] - 1>>} ELSE {}
            ur == IF queen[1] > 0 /\ queen[2] < size - 1
                  THEN {<<queen[1] - 1, queen[2] + 1>>} ELSE {}
            dl == IF queen[1] < size - 1 /\ queen[2] > 0
                  THEN {<<queen[1] + 1, queen[2] - 1>>} ELSE {}
            dr == IF queen[1] < size - 1 /\ queen[2] < size - 1
                  THEN {<<queen[1] + 1, queen[2] + 1>>} ELSE {}
        IN  col \cup row \cup clr \cup ul \cup ur \cup dl \cup dr]

\* Board::new (called with size * size = colors.len())
Board_new(size, colors) ==
    [size |-> size,
     colors |-> colors,
     coords |-> all_coords_of(size),
     queen_borders |-> compute_queen_borders(size, colors)]

square_count(b) == b.size * b.size

color(b, coord) == b.colors[coord_to_idx(b.size, coord) + 1]

\* an elimination set that holds the queen's own square as well
queen_borders_with_queen(b, queen) ==
    b.queen_borders[coord_to_idx(b.size, queen) + 1] \cup {queen}

queen_borders(b, queen) == b.queen_borders[coord_to_idx(b.size, queen) + 1]

row_coords(b, r) == {<<r, c>> : c \in 0 .. b.size - 1}

col_coords(b, c) == {<<r, c>> : r \in 0 .. b.size - 1}

coords_for_color(b, clr) == {coord \in b.coords : color(b, coord) = clr}

RECURSIVE unique(_)
\* Itertools::unique: the distinct elements in order of first occurrence
unique(s) ==
    IF s = <<>> THEN <<>>
    ELSE LET init == unique(SubSeq(s, 1, Len(s) - 1))
             x == s[Len(s)]
         IN  IF \E i \in 1 .. Len(init) : init[i] = x THEN init
             ELSE Append(init, x)

all_colors(b) == unique(b.colors)

(* ---------------------------- SolveState ------------------------------- *)

Queen == <<"Queen">>

X == <<"X">>

\* SolveState::square
square(b, sq, coord) == sq[coord_to_idx(b.size, coord) + 1]

\* Changes::AddQueen { queen, x }
AddQueen(queen, x) == [kind |-> "AddQueen", queen |-> queen, x |-> x]

\* Changes::AddX { x }
AddX(x) == [kind |-> "AddX", x |-> x]

\* Changes::changed_coords
changed_coords(ch) ==
    IF ch.kind = "AddQueen" THEN ch.x \cup {ch.queen} ELSE ch.x

\* apply_changes with the loop over x left out of the AddQueen arm
apply_changes_queen_only(b, sq, ch) ==
    IF ch.kind = "AddQueen"
    THEN [sq EXCEPT ![coord_to_idx(b.size, ch.queen) + 1] = Queen]
    ELSE [i \in 1 .. Len(sq) |->
            IF idx_to_coord(b.size, i - 1) \in ch.x THEN X ELSE sq[i]]

\* apply_changes writing through an index that is one too large: the square
\* after each member of x is overwritten
apply_changes_shifted(b, sq, ch) ==
    LET withQueen ==
            IF ch.kind = "AddQueen"
            THEN [sq EXCEPT ![coord_to_idx(b.size, ch.queen) + 1] = Queen]
            ELSE sq
    IN  [i \in 1 .. Len(sq) |->
            IF i > 1 /\ idx_to_coord(b.size, i - 2) \in ch.x THEN X ELSE withQueen[i]]

\* apply_changes on a clone that is dropped: the state is left as it was
apply_changes_dropped(b, sq, ch) == sq

\* SolveState::apply_changes: the queen square is written first, then every
\* member of x is overwritten with X
apply_changes(b, sq, ch) ==
    LET withQueen ==
            IF ch.kind = "AddQueen"
            THEN [sq EXCEPT ![coord_to_idx(b.size, ch.queen) + 1] = Queen]
            ELSE sq
    IN  [i \in 1 .. Len(sq) |->
            IF idx_to_coord(b.size, i - 1) \in ch.x THEN X ELSE withQueen[i]]

\* complete comparing the queen count with one less than the board size
complete_one_short(b, sq) ==
    Cardinality({i \in 1 .. Len(sq) : sq[i] = Queen}) = b.size - 1

\* SolveState::complete
complete(b, sq) ==
    Cardinality({i \in 1 .. Len(sq) : sq[i] = Queen}) = b.size

\* SolveState::is_valid
is_valid(b, sq) ==
    LET queens_in(cs) == Cardinality({c \in cs : square(b, sq, c) = Queen})
        rows_valid == \A r \in 0 .. b.size - 1 : queens_in(row_coords(b, r)) <= 1
        cols_valid == \A c \in 0 .. b.size - 1 : queens_in(col_coords(b, c)) <= 1
        ac == all_colors(b)
        colors_valid ==
            \A k \in 1 .. Len(ac) : queens_in(coords_for_color(b, ac[k])) <= 1
        queen_coords ==
            {idx_to_coord(b.size, i - 1) : i \in {j \in 1 .. Len(sq) : sq[j] = Queen}}
        queens_valid ==
            \A c \in queen_coords : queen_borders(b, c) \cap queen_coords = {}
    IN  rows_valid /\ cols_valid /\ colors_valid /\ queens_valid

\* From<&Board> for SolveState
SolveState_from_board(b) == [i \in 1 .. square_count(b) |-> None]

RECURSIVE normalise(_, _, _, _)
\* the loop of From<&QueensFile>: the queens of the input, in index order,
\* each applied as AddQueen with the still-unknown members of its border
normalise(b, input, sq, i) ==
    IF i > Len(input) THEN sq
    ELSE IF input[i] = Queen
         THEN LET queen == idx_to_coord(b.size, i - 1)
                  x == {coord \in queen_borders(b, queen) : square(b, sq, coord) = None}
              IN  normalise(b, input, apply_changes(b, sq, AddQueen(queen, x)), i + 1)
         ELSE normalise(b, input, sq, i + 1)

\* the conversion without the loop over the queens: the squares as given
SolveState_from_queens_file_as_given(b, qf_squares) ==
    IF is_some(qf_squares) THEN unwrap(qf_squares)
    ELSE [i \in 1 .. square_count(b) |-> None]

\* From<&QueensFile> for SolveState; qf_squares is Option<InputSquares>
SolveState_from_queens_file(b, qf_squares) ==
    LET input == IF is_some(qf_squares) THEN unwrap(qf_squares)
                 ELSE [i \in 1 .. square_count(b) |-> None]
    IN  normalise(b, input, input, 1)

(* ---------------------------- Heuristics ------------------------------- *)

LastSquareAvailable(coords, desc) ==
    [kind |-> "LastSquareAvailable", coords |-> coords, desc |-> desc]

AllPossibilitiesEliminateSquare(coords, desc) ==
    [kind |-> "AllPossibilitiesEliminateSquare", coords |-> coords, desc |-> desc]

NLinesContainOnlyNColors(lines, desc) ==
    [kind |-> "NLinesContainOnlyNColors", lines |-> lines, desc |-> desc]

NColorsOnlyAppearInNLines(colors, liner, color_desc) ==
    [kind |-> "NColorsOnlyAppearInNLines", colors |-> colors, liner |-> liner,
     desc |-> color_desc]

\* the two liner closures: |coord| coord.0 ("rows") and |coord| coord.1 ("cols")
liner_of(h, coord) == IF h.liner = "rows" THEN coord[1] ELSE coord[2]

\* the members of cs without the is_none() filter
unknown_in_unfiltered(b, sq, cs) == cs

\* iter().filter(|c| solve_state.square(c).is_none()) over a coordinate set
unknown_in(b, sq, cs) == {coord \in cs : square(b, sq, coord) = None}

\* LastSquareAvailable::changes proposing the queen with no eliminations
LastSquareAvailable_changes_no_x(h, b, sq) ==
    LET empty == unknown_in(b, sq, h.coords)
    IN  IF Cardinality(empty) /= 1 THEN None
        ELSE Some(AddQueen(CHOOSE c \in empty : TRUE, {}))

\* LastSquareAvailable::changes taking the first unknown member (next())
\* in place of exactly_one()
LastSquareAvailable_changes_first_unknown(h, b, sq) ==
    LET empty == unknown_in(b, sq, h.coords)
    IN  IF empty = {} THEN None
        ELSE LET queen == CHOOSE c \in empty :
                              \A d \in empty : coord_to_idx(b.size, c) <= coord_to_idx(b.size, d)
                 x == unknown_in(b, sq, queen_borders(b, queen))
             IN  Some(AddQueen(queen, x))

\* LastSquareAvailable::changes
LastSquareAvailable_changes(h, b, sq) ==
    LET empty == unknown_in(b, sq, h.coords)
    IN  IF Cardinality(empty) /= 1 THEN None
        ELSE LET queen == CHOOSE c \in empty : TRUE
                 x == unknown_in(b, sq, queen_borders(b, queen))
             IN  Some(AddQueen(queen, x))

\* the union of the borders of the members in place of their intersection
union_all(b, cs) == UNION {queen_borders(b, c) : c \in cs}

RECURSIVE intersect_all(_, _)
intersect_all(b, cs) ==
    IF cs = {} THEN b.coords
    ELSE LET c == CHOOSE c \in cs : TRUE
         IN  queen_borders(b, c) \cap intersect_all(b, cs \ {c})

\* AllPossibilitiesEliminateSquare::changes intersecting the borders of every
\* member of the subset, unknown or not
AllPossibilitiesEliminateSquare_changes_all_members(h, b, sq) ==
    LET acc == IF h.coords = {} THEN {} ELSE intersect_all(b, h.coords)
        x == unknown_in(b, sq, acc)
    IN  IF x = {} THEN None ELSE Some(AddX(x))

\* AllPossibilitiesEliminateSquare::changes: reduce(intersection) over the
\* borders of the unknown members, the empty set when there is none
AllPossibilitiesEliminateSquare_changes(h, b, sq) ==
    LET empty == unknown_in(b, sq, h.coords)
        acc == IF empty = {} THEN {} ELSE intersect_all(b, empty)
        x == unknown_in(b, sq, acc)
    IN  IF x = {} THEN None ELSE Some(AddX(x))

\* self.lines.iter().flatten()
flatten(lines) == UNION {lines[i] : i \in 1 .. Len(lines)}

\* NLinesContainOnlyNColors::changes without the x.is_empty() test
NLinesContainOnlyNColors_changes_empty_x(h, b, sq) ==
    IF \E coord \in flatten(h.lines) : square(b, sq, coord) = Queen THEN None
    ELSE LET coords == unknown_in(b, sq, flatten(h.lines))
             colors_set == {color(b, coord) : coord \in coords}
         IN  IF Cardinality(colors_set) > Len(h.lines) THEN None
             ELSE Some(AddX({coord \in b.coords :
                              /\ color(b, coord) \in colors_set
                              /\ coord \notin coords
                              /\ square(b, sq, coord) = None}))

\* NLinesContainOnlyNColors::changes without the test for a queen in the lines
NLinesContainOnlyNColors_changes_no_queen_test(h, b, sq) ==
    LET coords == unknown_in(b, sq, flatten(h.lines))
        colors_set == {color(b, coord) : coord \in coords}
    IN  IF Cardinality(colors_set) > Len(h.lines) THEN None
        ELSE LET x == {coord \in b.coords :
                         /\ color(b, coord) \in colors_set
                         /\ coord \notin coords
                         /\ square(b, sq, coord) = None}
             IN  IF x = {} THEN None ELSE Some(AddX(x))

\* NLinesContainOnlyNColors::changes
NLinesContainOnlyNColors_changes(h, b, sq) ==
    IF \E coord \in flatten(h.lines) : square(b, sq, coord) = Queen THEN None
    ELSE LET coords == unknown_in(b, sq, flatten(h.lines))
             colors_set == {color(b, coord) : coord \in coords}
         IN  IF Cardinality(colors_set) > Len(h.lines) THEN None
             ELSE LET x == {coord \in b.coords :
                              /\ color(b, coord) \in colors_set
                              /\ coord \notin coords
                              /\ square(b, sq, coord) = None}
                  IN  IF x = {} THEN None ELSE Some(AddX(x))

\* NColorsOnlyAppearInNLines::changes without the test for a queen on the colors
NColorsOnlyAppearInNLines_changes_no_queen_test(h, b, sq) ==
    LET lines_set ==
            {liner_of(h, coord) :
                coord \in {c \in b.coords :
                             color(b, c) \in h.colors /\ square(b, sq, c) = None}}
    IN  IF Cardinality(lines_set) > Cardinality(h.colors) THEN None
        ELSE LET x == {coord \in b.coords :
                         /\ liner_of(h, coord) \in lines_set
                         /\ color(b, coord) \notin h.colors
                         /\ square(b, sq, coord) = None}
             IN  IF x = {} THEN None ELSE Some(AddX(x))

\* NColorsOnlyAppearInNLines::changes
NColorsOnlyAppearInNLines_changes(h, b, sq) ==
    IF \E coord \in b.coords :
          color(b, coord) \in h.colors /\ square(b, sq, coord) = Queen
    THEN None
    ELSE LET lines_set ==
                 {liner_of(h, coord) :
                     coord \in {c \in b.coords :
                                  color(b, c) \in h.colors /\ square(b, sq, c) = None}}
         IN  IF Cardinality(lines_set) > Cardinality(h.colors) THEN None
             ELSE LET x == {coord \in b.coords :
                              /\ liner_of(h, coord) \in lines_set
                              /\ color(b, coord) \notin h.colors
                              /\ square(b, sq, coord) = None}
                  IN  IF x = {} THEN None ELSE Some(AddX(x))

\* Heuristic::changes (dynamic dispatch)
changes(h, b, sq) ==
    CASE h.kind = "LastSquareAvailable" -> LastSquareAvailable_changes(h, b, sq)
      [] h.kind = "AllPossibilitiesEliminateSquare" ->
             AllPossibilitiesEliminateSquare_changes(h, b, sq)
      [] h.kind = "NLinesContainOnlyNColors" -> NLinesContainOnlyNColors_changes(h, b, sq)
      [] h.kind = "NColorsOnlyAppearInNLines" -> NColorsOnlyAppearInNLines_changes(h, b, sq)

\* Heuristic::seen_coords (dynamic dispatch)
seen_coords(h, b, sq) ==
    CASE h.kind = "LastSquareAvailable" -> h.coords
      [] h.kind = "AllPossibilitiesEliminateSquare" -> unknown_in(b, sq, h.coords)
      [] h.kind = "NLinesContainOnlyNColors" -> unknown_in(b, sq, flatten(h.lines))
      [] h.kind = "NColorsOnlyAppearInNLines" ->
             {coord \in b.coords :
                 color(b, coord) \in h.colors /\ square(b, sq, coord) = None}

(* ---------------------------- Catalog ---------------------------------- *)

RECURSIVE combinations(_, _)
\* the k-element sub-sequences of s in lexicographic order of positions
combinations(s, k) ==
    IF k = 0 THEN <<<<>>>>
    ELSE IF Len(s) < k THEN <<>>
    ELSE LET rest == combinations(Tail(s), k - 1)
         IN  [i \in 1 .. Len(rest) |-> <<Head(s)>> \o rest[i]]
             \o combinations(Tail(s), k)

RECURSIVE powerset_from(_, _)
powerset_from(s, k) ==
    IF k > Len(s) THEN <<>>
    ELSE combinations(s, k) \o powerset_from(s, k + 1)

\* Itertools::powerset: by increasing size, each size in lexicographic order
powerset(s) == powerset_from(s, 0)

RECURSIVE filter_nonempty_below(_, _)
\* the filter with ll.len() < maxlen in place of ll.len() <= maxlen
filter_nonempty_below(ss, maxlen) ==
    IF ss = <<>> THEN <<>>
    ELSE IF Head(ss) /= <<>> /\ Len(Head(ss)) < maxlen
         THEN <<Head(ss)>> \o filter_nonempty_below(Tail(ss), maxlen)
         ELSE filter_nonempty_below(Tail(ss), maxlen)

\* Iterator::filter on a Vec
RECURSIVE filter_nonempty_upto(_, _)
filter_nonempty_upto(ss, maxlen) ==
    IF ss = <<>> THEN <<>>
    ELSE IF Head(ss) /= <<>> /\ Len(Head(ss)) <= maxlen
         THEN <<Head(ss)>> \o filter_nonempty_upto(Tail(ss), maxlen)
         ELSE filter_nonempty_upto(Tail(ss), maxlen)

RECURSIVE join(_)
join(strs) ==
    IF strs = <<>> THEN ""
    ELSE IF Len(strs) = 1 THEN strs[1]
    ELSE strs[1] \o ", " \o join(Tail(strs))

\* format!("{:?}", v) of a Vec
debug_vec(strs) == "[" \o join(strs) \o "]"

RECURSIVE flat_pairs(_)
\* flat_map(|ll| vec![a(ll), b(ll)]) given the sequence of the pairs
flat_pairs(ps) ==
    IF ps = <<>> THEN <<>> ELSE Head(ps) \o flat_pairs(Tail(ps))

\* all_heuristics
all_heuristics(b) ==
    LET ac == all_colors(b)
        n == b.size
        lsa_colors == [k \in 1 .. Len(ac) |->
            LastSquareAvailable(coords_for_color(b, ac[k]), "'" \o ac[k] \o "' Color")]
        lsa_rows == [r \in 1 .. n |->
            LastSquareAvailable(row_coords(b, r - 1), "Row " \o ToString(r))]
        lsa_cols == [c \in 1 .. n |->
            LastSquareAvailable(col_coords(b, c - 1), "Col " \o ToString(c))]
        apes_rows == [r \in 1 .. n |->
            AllPossibilitiesEliminateSquare(row_coords(b, r - 1), "Row " \o ToString(r))]
        apes_cols == [c \in 1 .. n |->
            AllPossibilitiesEliminateSquare(col_coords(b, c - 1), "Col " \o ToString(c))]
        apes_colors == [k \in 1 .. Len(ac) |->
            AllPossibilitiesEliminateSquare(coords_for_color(b, ac[k]),
                                            "'" \o ac[k] \o "' Color")]
        lls == filter_nonempty_upto(powerset([i \in 1 .. n |-> i - 1]), n \div 2)
        line_desc(ll) == debug_vec([i \in 1 .. Len(ll) |-> ToString(ll[i] + 1)])
        nlines == flat_pairs([j \in 1 .. Len(lls) |->
            <<NLinesContainOnlyNColors(
                  [i \in 1 .. Len(lls[j]) |-> col_coords(b, lls[j][i])],
                  "Cols " \o line_desc(lls[j])),
              NLinesContainOnlyNColors(
                  [i \in 1 .. Len(lls[j]) |-> row_coords(b, lls[j][i])],
                  "Rows " \o line_desc(lls[j]))>>])
        ccs == filter_nonempty_upto(powerset(ac), Len(ac))
        set_of(cc) == {cc[i] : i \in 1 .. Len(cc)}
        ncolors_rows == [j \in 1 .. Len(ccs) |->
            NColorsOnlyAppearInNLines(set_of(ccs[j]), "rows", debug_vec(ccs[j]))]
        ncolors_cols == [j \in 1 .. Len(ccs) |->
            NColorsOnlyAppearInNLines(set_of(ccs[j]), "cols", debug_vec(ccs[j]))]
    IN  lsa_colors \o lsa_rows \o lsa_cols \o apes_rows \o apes_cols \o apes_colors
        \o nlines \o ncolors_rows \o ncolors_cols

(* ---------------------------- Strategy selector ------------------------ *)

Fast == "Fast"

Short == "Short"

Simple == "Simple"

SolveStrategy == {Fast, Short, Simple}

RECURSIVE tuple_lt(_, _)
\* Ord on tuples of integers of the same length: lexicographic
tuple_lt(a, c) ==
    IF a = <<>> THEN FALSE
    ELSE IF Head(a) /= Head(c) THEN Head(a) < Head(c)
    ELSE tuple_lt(Tail(a), Tail(c))

\* find without the is_some() test: the first catalog entry
find_first_unfiltered(hs, b, sq, i) ==
    IF i > Len(hs) THEN None ELSE Some(i)

\* the last catalog entry that fires instead of the first
find_last(hs, b, sq, i) ==
    LET f == {j \in i .. Len(hs) : is_some(changes(hs[j], b, sq))}
    IN  IF f = {} THEN None ELSE Some(CHOOSE j \in f : \A k \in f : k <= j)

\* find over the entries that place a queen only
find_first_queen(hs, b, sq, i) ==
    LET f == {j \in i .. Len(hs) :
                 \E c \in {changes(hs[j], b, sq)} :
                     is_some(c) /\ unwrap(c).kind = "AddQueen"}
    IN  IF f = {} THEN None ELSE Some(CHOOSE j \in f : \A k \in f : j <= k)

\* a selector with memory: the first firing entry when the number of pulls
\* made so far is even, the last one when it is odd
find_by_pulls(hs, b, sq, i) ==
    LET f == {j \in i .. Len(hs) : is_some(changes(hs[j], b, sq))}
    IN  IF f = {} THEN None
        ELSE IF pulls % 2 = 0 THEN Some(CHOOSE j \in f : \A k \in f : j <= k)
        ELSE Some(CHOOSE j \in f : \A k \in f : k <= j)

RECURSIVE find_first(_, _, _, _)
\* Iterator::find(|h| h.changes(solve_state).is_some()) over the catalog
\* positions from i on
find_first(hs, b, sq, i) ==
    IF i > Len(hs) THEN None
    ELSE IF is_some(changes(hs[i], b, sq)) THEN Some(i)
    ELSE find_first(hs, b, sq, i + 1)

\* a key without the queen flag: rules compared by elimination count alone
short_key_no_queen_flag(c) ==
    <<0, Cardinality(c.x)>>

\* the key closure of the Short strategy, on a rule that fires with changes c
short_key(c) ==
    IF c.kind = "AddQueen" THEN <<1, Cardinality(c.x)>>
    ELSE <<0, Cardinality(c.x)>>

\* a key counting the squares examined in place of the squares not examined
simple_key_seen_count(c, seen, b) ==
    IF c.kind = "AddQueen"
    THEN <<1, Cardinality(seen), Cardinality(c.x)>>
    ELSE <<0, Cardinality(seen), Cardinality(c.x)>>

\* a key whose second component subtracts the examined squares twice
simple_key_seen_twice(c, seen, b) ==
    IF c.kind = "AddQueen"
    THEN <<1, 1 + square_count(b) - 2 * Cardinality(seen), Cardinality(c.x)>>
    ELSE <<0, 1 + square_count(b) - 2 * Cardinality(seen), Cardinality(c.x)>>

\* the key closure of the Simple strategy, on a rule that fires with changes c
\* and has examined the coordinates seen
simple_key(c, seen, b) ==
    IF c.kind = "AddQueen"
    THEN <<1, 1 + square_count(b) - Cardinality(seen), Cardinality(c.x)>>
    ELSE <<0, 1 + square_count(b) - Cardinality(seen), Cardinality(c.x)>>

\* the key of catalog entry h under the strategy
key_of(h, b, sq, strategy, c) ==
    IF strategy = Short THEN short_key(c)
    ELSE simple_key(c, seen_coords(h, b, sq), b)

\* take_while in place of filter: the catalog positions before the first
\* entry that does not fire
take_while_is_some(hs, b, sq) ==
    CHOOSE fs \in
        {[n \in 1 .. Cardinality(f) |-> n] :
            f \in {{j \in 1 .. Len(hs) :
                      \A m \in 1 .. j : is_some(changes(hs[m], b, sq))}}} : TRUE

\* Iterator::filter(|h| h.changes(solve_state).is_some()) over the catalog:
\* the positions of the entries that fire, in catalog order
filter_is_some(hs, b, sq) ==
    CHOOSE fs \in
        {[n \in 1 .. Cardinality(f) |->
             CHOOSE j \in f : Cardinality({m \in f : m < j}) = n - 1] :
            f \in {{j \in 1 .. Len(hs) : is_some(changes(hs[j], b, sq))}}} : TRUE

RECURSIVE max_by_key(_, _, _, _, _, _, _, _)
\* Iterator::max_by_key(..) over the filtered positions fs from the n-th on: a
\* fold that keeps the later element when two keys are equal; best is the
\* position kept so far and best_key its key
max_by_key(hs, b, sq, strategy, fs, n, best, best_key) ==
    IF n > Len(fs) THEN best
    ELSE LET k == key_of(hs[fs[n]], b, sq, strategy,
                         unwrap(changes(hs[fs[n]], b, sq)))
         IN  IF best = None \/ ~tuple_lt(k, best_key)
             THEN max_by_key(hs, b, sq, strategy, fs, n + 1, Some(fs[n]), k)
             ELSE max_by_key(hs, b, sq, strategy, fs, n + 1, best, best_key)

\* heuristics.iter().filter(..).max_by_key(..)
filter_max_by_key(hs, b, sq, strategy) ==
    CHOOSE h \in {max_by_key(hs, b, sq, strategy, fs, 1, None, <<>>) :
                     fs \in {filter_is_some(hs, b, sq)}} : TRUE

\* next_heuristic: the position in the catalog of the chosen rule, or None
next_heuristic(b, sq, strategy, hs) ==
    CASE strategy = Short -> filter_max_by_key(hs, b, sq, Short)
      [] strategy = Simple -> filter_max_by_key(hs, b, sq, Simple)
      [] strategy = Fast -> find_first(hs, b, sq, 1)

(* ---------------------------- Inputs ----------------------------------- *)

\* Board::from_str of N lines of N single-character color codes
Board_from_str(lines) ==
    Board_new(Len(lines),
              [i \in 1 .. Len(lines) * Len(lines) |->
                  lines[((i - 1) \div Len(lines)) + 1][((i - 1) % Len(lines)) + 1]])

\* the boards of the runs: those of the repository's tests and doc examples,
\* and boards of sizes 1 to 4 with fewer, as many and more colors than rows
BoardInputs ==
    { <<<<"w">>>>,
      <<<<"w", "w">>, <<"k", "k">>>>,
      <<<<"w", "k", "r">>, <<"w", "k", "r">>, <<"w", "k", "r">>>>,
      <<<<"w", "w", "w", "w">>, <<"k", "k", "k", "k">>,
        <<"r", "r", "r", "r">>, <<"b", "b", "b", "b">>>>,
      <<<<"r", "r", "r", "r">>, <<"r", "k", "k", "k">>,
        <<"b", "b", "b", "b">>, <<"c", "c", "c", "c">>>>,
      <<<<"w", "w", "k", "w">>, <<"k", "k", "k", "w">>,
        <<"r", "r", "r", "r">>, <<"b", "b", "b", "b">>>>,
      <<<<"k", "k", "k", "r">>, <<"b", "k", "r", "r">>,
        <<"b", "b", "b", "w">>, <<"b", "b", "w", "w">>>>,
      <<<<"w", "k", "k", "k">>, <<"w", "w", "k", "r">>,
        <<"b", "w", "r", "r">>, <<"b", "b", "b", "c">>>>,
      <<<<"k", "k", "r", "b">>, <<"b", "k", "r", "r">>,
        <<"w", "b", "r", "w">>, <<"w", "k", "b", "r">>>> }

\* Option<InputSquares> for board b: no squares section, or one that marks at
\* most `most` of the first `first` squares, each as a queen or as eliminated
InputSquaresOf(b, first, most) ==
    LET cells == {i \in 1 .. first : i <= square_count(b)}
        marks == {m \in SUBSET cells : Cardinality(m) <= most}
    IN  {None} \cup
        UNION {{Some([i \in 1 .. square_count(b) |->
                        IF i \in m THEN (IF i \in q THEN Queen ELSE X) ELSE None]) :
                  q \in SUBSET m} : m \in marks}

\* Option<InputSquares> of the QueensFile an iterator is started on
QueensFileSquares(b) == InputSquaresOf(b, PrefillCells, MaxPrefilled)

(* ---------------------------- SolveIter -------------------------------- *)

SolveIterItem(sq, h) == [solve_state |-> sq, next_heuristic |-> h]

\* no constructor call is in progress
NoCall ==
    [fn |-> "none", args |-> <<>>, outcome |-> "none", value |-> None, panic |-> ""]

\* solve_iter(SolveState::from(&queens_file), strategy, &all_heuristics(board))
Init ==
    \E lines \in BoardInputs :
      \E b \in {Board_from_str(lines)} :
        \E hs \in {all_heuristics(b)} :
          \E strategy \in SolveStrategy :
            \E qf_squares \in QueensFileSquares(b) :
              /\ board = b
              /\ heuristics = hs
              /\ squares = SolveState_from_queens_file(b, qf_squares)
              /\ initial = squares
              /\ solve_strategy = strategy
              /\ done = FALSE
              /\ yielded = <<>>
              /\ last_pull = None
              /\ pulls = 0
              /\ none_pulls = 0
              /\ call = NoCall

\* the pull returns None
ReturnNone ==
    /\ none_pulls < MaxNonePulls
    /\ none_pulls' = none_pulls + 1
    /\ pulls' = pulls + 1
    /\ last_pull' = None
    /\ UNCHANGED yielded

\* the pull returns Some(item)
ReturnSome(item) ==
    /\ pulls' = pulls + 1
    /\ last_pull' = Some(item)
    /\ yielded' = Append(yielded, item)
    /\ UNCHANGED none_pulls

\* SolveIter::next, `if self.done`
next_when_done == ReturnNone /\ UNCHANGED <<squares, done>>

\* the complete arm without `self.done = true`
next_when_complete_not_done ==
    /\ done' = done
    /\ ReturnSome(SolveIterItem(squares, None))
    /\ UNCHANGED squares

\* SolveIter::next, `if self.solve_state.complete()`
next_when_complete ==
    /\ done' = TRUE
    /\ ReturnSome(SolveIterItem(squares, None))
    /\ UNCHANGED squares

\* the stuck arm yielding a final item with no rule
next_when_stuck_yields_item ==
    /\ done' = TRUE
    /\ ReturnSome(SolveIterItem(squares, None))
    /\ UNCHANGED squares

\* SolveIter::next, the `?` on the result of next_heuristic and of h.changes
next_when_stuck == ReturnNone /\ UNCHANGED <<squares, done>>

\* the item of a step built from the state after apply_changes
step_item_new_state(old_solve_state, new_solve_state, h) ==
    SolveIterItem(new_solve_state, h)

\* SolveIter::next, the item of a step: the clone taken before apply_changes
step_item(old_solve_state, new_solve_state, h) == SolveIterItem(old_solve_state, h)

\* SolveIter::next, the step of rule h with changes c
next_step(h, c) ==
    /\ squares' = apply_changes(board, squares, c)
    /\ ReturnSome(step_item(squares, squares', h))
    /\ UNCHANGED done

\* SolveIter::next, as called from a flow of main.rs
SolveIter_pull ==
    /\ UNCHANGED <<board, heuristics, solve_strategy, initial>>
    /\ IF done THEN next_when_done
       ELSE IF complete(board, squares) THEN next_when_complete
       ELSE \E h \in {next_heuristic(board, squares, solve_strategy, heuristics)} :
              IF ~is_some(h) THEN next_when_stuck
              ELSE \E c \in {changes(heuristics[unwrap(h)], board, squares)} :
                     IF ~is_some(c) THEN next_when_stuck
                     ELSE next_step(h, unwrap(c))

\* SolveIter::next
SolveIter_next == SolveIter_pull /\ UNCHANGED call

Next == SolveIter_next

Spec == Init /\ [][Next]_vars

(* ---------------------------- Constructors ----------------------------- *)

\* the color vectors handed to Board::new
ColorVecs ==
    UNION {[1 .. n -> {"w", "k"}] : n \in 0 .. MaxColorsLen}

\* the rows of a CoordSet, [u16; 16]
CoordSetRows == 16

\* the bits of a row of a CoordSet, u16
CoordSetBits == 16

\* the board sizes at and beyond the capacity of a CoordSet
BigSizes == {CoordSetRows, CoordSetRows + 1}

\* the elements the sets are built from: those of the tests line_set and
\* coord_set, and the largest ones
LineElems == {0, 2, 5, CoordSetBits - 1}

CoordElems == {<<0, 0>>, <<1, 1>>, <<2, 4>>, <<0, CoordSetBits - 1>>,
               <<CoordSetRows - 1, 0>>}

\* a call that has not run yet
Called(fn, args) ==
    [fn |-> fn, args |-> args, outcome |-> "called", value |-> None, panic |-> ""]

\* a call of Board::new or of SolveState::from is about to run; no iterator
\* exists
InitConstruct ==
    /\ \/ \E size \in 0 .. MaxNewSize : \E colors \in ColorVecs :
              call = Called("Board::new", <<size, colors>>)
       \/ \E size \in BigSizes :
              call = Called("Board::new", <<size, [i \in 1 .. size * size |-> "w"]>>)
       \/ \E lines \in BoardInputs :
              \E b \in {Board_from_str(lines)} :
                \E qf_squares \in InputSquaresOf(b, square_count(b), MaxMarked) :
                  call = Called("SolveState::from", <<b, qf_squares>>)
       \/ \E lines_in \in BoardInputs :
              \E b \in {Board_from_str(lines_in)} :
                \E qf_squares \in InputSquaresOf(b, square_count(b), MaxMarked) :
                  call = Called("QueensFile::from_str",
                                <<b, SolveState_from_queens_file(b, qf_squares)>>)
       \/ \E n \in 0 .. MaxElems : \E ls \in [1 .. n -> LineElems] :
              call = Called("LineSet::from_iter", <<ls>>)
       \/ \E n \in 0 .. MaxElems : \E cs \in [1 .. n -> CoordElems] :
              call = Called("CoordSet::from_iter", <<cs>>)
    /\ board = None
    /\ heuristics = <<>>
    /\ squares = <<>>
    /\ initial = <<>>
    /\ solve_strategy = Fast
    /\ done = FALSE
    /\ yielded = <<>>
    /\ last_pull = None
    /\ pulls = 0
    /\ none_pulls = 0

\* assert!(size * size <= colors.len())
Board_new_assert_at_least(size, colors) ==
    size * size <= Len(colors)

\* assert_eq!(size * size, colors.len(), ..) of Board::new
Board_new_assert(size, colors) ==
    size * size = Len(colors)

\* iproduct!(0..size, 0..size): the coordinates in row-major order
iproduct(size) ==
    [i \in 1 .. size * size |-> idx_to_coord(size, i - 1)]

\* the collection with the row taken modulo the number of rows, as a flat
\* bitset would
CoordSet_from_iter_wrapping_rows(coords, overflow_checks) ==
    LET bad == {i \in 1 .. Len(coords) :
                   coords[i][2] >= CoordSetBits /\ overflow_checks}
    IN  IF bad = {}
        THEN [panic |-> "",
              set |-> {<<coords[i][1] % CoordSetRows, coords[i][2] % CoordSetBits>> :
                          i \in 1 .. Len(coords)}]
        ELSE [panic |-> "attempt to shift left with overflow", set |-> {}]

\* FromIterator<Coord> for CoordSet, bits[coord.0] |= 1 << coord.1 for each
\* coord in turn.  A row beyond the array panics; a shift beyond the width of
\* u16 panics in a build with overflow checks and is taken modulo the width in
\* a build without.  The first coord that panics ends the collection.
CoordSet_from_iter(coords, overflow_checks) ==
    LET bad == {i \in 1 .. Len(coords) :
                   \/ coords[i][1] >= CoordSetRows
                   \/ coords[i][2] >= CoordSetBits /\ overflow_checks}
    IN  IF bad = {}
        THEN [panic |-> "",
              set |-> {<<coords[i][1], coords[i][2] % CoordSetBits>> :
                          i \in 1 .. Len(coords)}]
        ELSE LET first == CHOOSE i \in bad : \A j \in bad : i <= j
             IN  [panic |-> IF coords[first][1] >= CoordSetRows
                            THEN "index out of bounds"
                            ELSE "attempt to shift left with overflow",
                  set |-> {}]

\* Board::new(size, colors): the assertion panics, or the collection of the
\* coordinates panics, or the Board is returned; overflow_checks is the build
Board_new_call ==
    /\ call.fn = "Board::new"
    /\ call.outcome = "called"
    /\ \E overflow_checks \in BOOLEAN :
          IF ~Board_new_assert(call.args[1], call.args[2])
          THEN call' = [call EXCEPT !.outcome = "panicked",
                                    !.panic = "assertion failed"]
          ELSE \E coords \in {CoordSet_from_iter(iproduct(call.args[1]),
                                                 overflow_checks)} :
                 IF coords.panic /= ""
                 THEN call' = [call EXCEPT !.outcome = "panicked",
                                           !.panic = coords.panic]
                 ELSE call' = [call EXCEPT
                                 !.outcome = "returned",
                                 !.value = Some([Board_new(call.args[1], call.args[2])
                                                   EXCEPT !.coords = coords.set])]
    /\ UNCHANGED <<board, squares, solve_strategy, heuristics, done,
                   initial, yielded, last_pull, pulls, none_pulls>>

\* SolveState::from(&queens_file): the squares of the SolveState are returned
SolveState_from_call ==
    /\ call.fn = "SolveState::from"
    /\ call.outcome = "called"
    /\ call' = [call EXCEPT !.outcome = "returned",
                            !.value = Some(SolveState_from_queens_file(call.args[1],
                                                                       call.args[2]))]
    /\ UNCHANGED <<board, squares, solve_strategy, heuristics, done,
                   initial, yielded, last_pull, pulls, none_pulls>>

(* Text.  A str is the sequence of its characters, each a one-character    *)
(* string; NL is the line feed.                                            *)

NL == "\n"

\* char::is_whitespace on the characters that occur here
is_whitespace(ch) == ch \in {" ", NL}

RECURSIVE trim_start(_)
trim_start(s) ==
    IF s /= <<>> /\ is_whitespace(Head(s)) THEN trim_start(Tail(s)) ELSE s

RECURSIVE trim_end(_)
trim_end(s) ==
    IF s /= <<>> /\ is_whitespace(s[Len(s)])
    THEN trim_end(SubSeq(s, 1, Len(s) - 1)) ELSE s

\* str::trim
trim(s) == trim_end(trim_start(s))

RECURSIVE lines(_)
\* str::lines: the text between line feeds; a final line feed ends the last
\* line and starts no new one
lines(s) ==
    IF s = <<>> THEN <<>>
    ELSE IF \A i \in 1 .. Len(s) : s[i] /= NL THEN <<s>>
    ELSE LET i == CHOOSE i \in 1 .. Len(s) :
                      s[i] = NL /\ \A j \in 1 .. i - 1 : s[j] /= NL
         IN  <<SubSeq(s, 1, i - 1)>> \o lines(SubSeq(s, i + 1, Len(s)))

RECURSIVE join_lines(_)
\* [&str]::join("\n")
join_lines(ls) ==
    IF ls = <<>> THEN <<>>
    ELSE IF Len(ls) = 1 THEN ls[1]
    ELSE ls[1] \o <<NL>> \o join_lines(Tail(ls))

\* Result::Ok and Result::Err
Ok(v) == [ok |-> TRUE, value |-> v]

Err(msg) == [ok |-> FALSE, value |-> msg]

\* the characters SquareColor::try_from accepts, among those of the boards here
SquareColorChars == {"w", "k", "r", "b", "c"}

\* SquareVal::try_from
SquareVal_try_from(ch) ==
    CASE ch = "Q" -> Ok(Queen)
      [] ch = "x" -> Ok(X)
      [] ch \in {" ", ".", "_"} -> Ok(None)
      [] OTHER -> Err("Blank")

\* SquareVal::as_char(sv, false, &Charset::Ascii)
SquareVal_as_char(sv) ==
    IF sv = Queen THEN "Q" ELSE IF sv = X THEN "x" ELSE " "

\* chunks_exact(size) of a Vec
chunks_exact(v, size) ==
    [r \in 1 .. Len(v) \div size |-> SubSeq(v, (r - 1) * size + 1, r * size)]

RECURSIVE chars_of(_)
\* the characters of a sequence of lines, in order
chars_of(ls) == IF ls = <<>> THEN <<>> ELSE Head(ls) \o chars_of(Tail(ls))

\* the loop of both Display impls over with_position(): every row is
\* followed by a line feed unless its position is Position::Last; the
\* position of the row of a one-row grid is Position::Only
write_rows(rows) ==
    chars_of([r \in 1 .. Len(rows) |->
                 IF r = Len(rows) /\ Len(rows) > 1 THEN rows[r]
                 ELSE rows[r] \o <<NL>>])

\* Display for Board
Board_fmt(b) == write_rows(chunks_exact(b.colors, b.size))

\* Display for SolveState: the board, an empty line, the rows of the squares
SolveState_fmt(b, sq) ==
    Board_fmt(b) \o <<NL>> \o <<NL>>
        \o write_rows(chunks_exact([i \in 1 .. Len(sq) |-> SquareVal_as_char(sq[i])],
                                   b.size))

\* FromStr for Board on text
Board_from_text(s) ==
    LET ls == lines(trim(s))
        size == Len(ls)
    IN  IF \E n \in 1 .. size : Len(ls[n]) /= size THEN Err("Invalid board")
        ELSE IF \E n \in 1 .. size : \E i \in 1 .. size : ls[n][i] \notin SquareColorChars
        THEN Err("Invalid color")
        ELSE Ok(Board_new(size, chars_of(ls)))

\* FromStr for InputSquares
InputSquares_from_str(s) ==
    LET ls == lines(trim(s))
        size == Len(ls)
        cs == chars_of(ls)
    IN  IF \E n \in 1 .. size : Len(ls[n]) /= size
        THEN Err("Invalid solve state squares")
        ELSE IF \E i \in 1 .. Len(cs) : ~SquareVal_try_from(cs[i]).ok THEN Err("Blank")
        ELSE Ok([i \in 1 .. Len(cs) |-> SquareVal_try_from(cs[i]).value])

\* FromStr for QueensFile
QueensFile_from_str(s) ==
    LET ls == lines(trim(s))
        lines_len == Len(ls)
    IN  IF lines_len = 0 THEN Err("Invalid solve state: no lines found.")
        ELSE LET size == Len(ls[1])
                 is_squares_formatted ==
                     lines_len = 1 + size * 2 /\ ls[size + 1] = <<>>
             IN  IF ~(lines_len = size \/ is_squares_formatted)
                 THEN Err("Invalid solve state: lines for size")
                 ELSE LET b == Board_from_text(join_lines(SubSeq(ls, 1, size)))
                          sqs == IF is_squares_formatted
                                 THEN InputSquares_from_str(
                                          join_lines(SubSeq(ls, size + 2, size * 2 + 1)))
                                 ELSE Ok(None)
                      IN  IF ~b.ok THEN b
                          ELSE IF ~sqs.ok THEN sqs
                          ELSE Ok([board |-> b.value,
                                   squares |-> IF is_squares_formatted
                                               THEN Some(sqs.value) ELSE None])

\* SolveState::from(&QueensFile::from_str(&format!("{}", solve_state))?) for
\* the SolveState of args: the parse returns Err, or the conversion reads a
\* square beyond a squares vector shorter than the board and panics, or the
\* squares of the new SolveState are returned
Reparse_call ==
    /\ call.fn = "QueensFile::from_str"
    /\ call.outcome = "called"
    /\ \E qf \in {QueensFile_from_str(SolveState_fmt(call.args[1], call.args[2]))} :
          IF ~qf.ok
          THEN call' = [call EXCEPT !.outcome = "failed", !.panic = qf.value]
          ELSE IF /\ is_some(qf.value.squares)
                  /\ Len(unwrap(qf.value.squares)) < square_count(qf.value.board)
                  /\ \E i \in 1 .. Len(unwrap(qf.value.squares)) :
                         unwrap(qf.value.squares)[i] = Queen
          THEN call' = [call EXCEPT !.outcome = "panicked",
                                    !.panic = "index out of bounds"]
          ELSE call' = [call EXCEPT
                          !.outcome = "returned",
                          !.value = Some(SolveState_from_queens_file(qf.value.board,
                                                                     qf.value.squares))]
    /\ UNCHANGED <<board, squares, solve_strategy, heuristics, done,
                   initial, yielded, last_pull, pulls, none_pulls>>

(* Bit sets.  A u16 is a number below 2^16; the [u16; 16] of a CoordSet is *)
(* a function on 0 .. 15.                                                  *)

\* 1 << k on a u16, for k < 16
shl_one(k) == 2 ^ k

\* (bits >> k) & 1 == 1
bit_is_set(bits, k) == (bits \div shl_one(k)) % 2 = 1

\* bits |= 1 << k as an addition, whether or not the bit is set
or_shl_one_adding(bits, k) == bits + shl_one(k)

\* bits |= 1 << k
or_shl_one(bits, k) == IF bit_is_set(bits, k) THEN bits ELSE bits + shl_one(k)

RECURSIVE count_ones(_)
\* u16::count_ones
count_ones(bits) == IF bits = 0 THEN 0 ELSE (bits % 2) + count_ones(bits \div 2)

RECURSIVE LineSet_from_iter(_)
\* FromIterator<usize> for LineSet: the fold of bits |= 1 << line from 0
LineSet_from_iter(ls) ==
    IF ls = <<>> THEN 0
    ELSE or_shl_one(LineSet_from_iter(SubSeq(ls, 1, Len(ls) - 1)), ls[Len(ls)])

\* LineSet::len
LineSet_len(bits) == count_ones(bits)

\* LineSet::contains
LineSet_contains(bits, line) == bit_is_set(bits, line)

RECURSIVE CoordSet_bits_from_iter(_)
\* FromIterator<Coord> for CoordSet on the bit array: the fold of
\* bits[coord.0] |= 1 << coord.1 from [0; 16]
CoordSet_bits_from_iter(cs) ==
    IF cs = <<>> THEN [a \in 0 .. CoordSetRows - 1 |-> 0]
    ELSE LET bits == CoordSet_bits_from_iter(SubSeq(cs, 1, Len(cs) - 1))
             coord == cs[Len(cs)]
         IN  [bits EXCEPT ![coord[1]] = or_shl_one(bits[coord[1]], coord[2])]

RECURSIVE sum_count_ones(_, _)
\* the sum of count_ones over the first n words
sum_count_ones(bits, n) ==
    IF n = 0 THEN 0 ELSE sum_count_ones(bits, n - 1) + count_ones(bits[n - 1])

\* CoordSet::len
CoordSet_len(bits) == sum_count_ones(bits, CoordSetRows)

\* CoordSet::contains
CoordSet_contains(bits, coord) == bit_is_set(bits[coord[1]], coord[2])

\* LineSet::from_iter or CoordSet::from_iter, and iter() on the result
Set_from_iter_call ==
    /\ call.fn \in {"LineSet::from_iter", "CoordSet::from_iter"}
    /\ call.outcome = "called"
    /\ call' = [call EXCEPT
                  !.outcome = "iterating",
                  !.value = Some([set |-> IF call.fn = "LineSet::from_iter"
                                           THEN LineSet_from_iter(call.args[1])
                                           ELSE CoordSet_bits_from_iter(call.args[1]),
                                  idx |-> 0, items |-> <<>>, passes |-> <<>>])]
    /\ UNCHANGED <<board, squares, solve_strategy, heuristics, done,
                   initial, yielded, last_pull, pulls, none_pulls>>

\* the indices from idx on that the while loop of next stops at
LineSetIter_hits(it) ==
    {i \in it.idx .. CoordSetBits - 1 : LineSet_contains(it.set, i)}

CoordSetIter_hits(it) ==
    {i \in it.idx .. CoordSetRows * CoordSetBits - 1 :
        bit_is_set(it.set[i \div CoordSetBits], i % CoordSetBits)}

\* LineSetIter::next and CoordSetIter::next: idx moves past the first index
\* from idx on whose bit is set and that element is returned, or idx moves
\* to the end and None is returned
SetIter_next ==
    /\ call.fn \in {"LineSet::from_iter", "CoordSet::from_iter"}
    /\ call.outcome = "iterating"
    /\ \E it \in {unwrap(call.value)} :
       \E hits \in {IF call.fn = "LineSet::from_iter" THEN LineSetIter_hits(it)
                    ELSE CoordSetIter_hits(it)} :
          IF hits /= {}
          THEN \E i \in hits :
                 /\ \A j \in hits : i <= j
                 /\ call' = [call EXCEPT
                      !.value = Some([it EXCEPT
                          !.idx = i + 1,
                          !.items = Append(it.items,
                                       IF call.fn = "LineSet::from_iter" THEN i
                                       ELSE <<i \div CoordSetBits, i % CoordSetBits>>)])]
          ELSE call' = [call EXCEPT
                      !.outcome = "exhausted",
                      !.value = Some([it EXCEPT
                          !.idx = IF call.fn = "LineSet::from_iter" THEN CoordSetBits
                                  ELSE CoordSetRows * CoordSetBits,
                          !.passes = Append(it.passes, it.items)])]
    /\ UNCHANGED <<board, squares, solve_strategy, heuristics, done,
                   initial, yielded, last_pull, pulls, none_pulls>>

\* LineSet::iter and CoordSet::iter called again on the same set
Set_iter ==
    /\ call.fn \in {"LineSet::from_iter", "CoordSet::from_iter"}
    /\ call.outcome = "exhausted"
    /\ Len(unwrap(call.value).passes) < MaxPasses
    /\ call' = [call EXCEPT
                  !.outcome = "iterating",
                  !.value = Some([unwrap(call.value) EXCEPT !.idx = 0, !.items = <<>>])]
    /\ UNCHANGED <<board, squares, solve_strategy, heuristics, done,
                   initial, yielded, last_pull, pulls, none_pulls>>

NextConstruct ==
    \/ Board_new_call
    \/ SolveState_from_call
    \/ Reparse_call
    \/ Set_from_iter_call
    \/ SetIter_next
    \/ Set_iter

SpecConstruct == InitConstruct /\ [][NextConstruct]_vars

(* ---------------------------- main.rs flows ---------------------------- *)

\* enum HintType
HintType == {"Heuristic", "Result", "Both"}

\* the text printed when there is no hint
NoNextStep == [text |-> "No next step found."]

\* println!("{}", solve_state.ansi_string(highlight, charset)): the state
\* shown and the coordinates highlighted in it
PrintState(sq, highlight) ==
    [text |-> "state", solve_state |-> sq, highlight |-> highlight]

\* println!("{}", next_heuristic.description())
PrintDescription(h) == [text |-> "description", heuristic |-> h]

\* the solve or the hint subcommand on a parsed QueensFile: value holds the
\* lines printed so far
InitFlow ==
    /\ \E lines_in \in BoardInputs :
         \E b \in {Board_from_str(lines_in)} :
           \E hs \in {all_heuristics(b)} :
             \E strategy \in SolveStrategy :
               \E qf_squares \in QueensFileSquares(b) :
                 /\ board = b
                 /\ heuristics = hs
                 /\ squares = SolveState_from_queens_file(b, qf_squares)
                 /\ initial = squares
                 /\ solve_strategy = strategy
    /\ done = FALSE
    /\ yielded = <<>>
    /\ last_pull = None
    /\ pulls = 0
    /\ none_pulls = 0
    /\ \/ call = [Called("solve", <<>>) EXCEPT !.value = Some(<<>>)]
       \/ \E hint_type \in HintType :
             call = [Called("hint", <<hint_type>>) EXCEPT !.value = Some(<<>>)]

\* the flow prints line
Printed(c, line) == [c EXCEPT !.value = Some(Append(unwrap(c.value), line))]

\* the flow returns Ok(())
Returned(c) == [c EXCEPT !.outcome = "returned"]

\* solve: state_iter_items.iter().last().unwrap().solve_state, printed with
\* no highlight
last_unwrap(c, items) ==
    IF items = <<>>
    THEN [c EXCEPT !.outcome = "panicked",
                   !.panic = "called Option::unwrap() on a None value"]
    ELSE Returned(Printed(c, PrintState(items[Len(items)].solve_state, {})))

\* solve: one pull of collect::<Vec<_>>(); the pull that returns None ends
\* the collection and the final state is taken from the last item
solve ==
    /\ call.fn = "solve"
    /\ call.outcome = "called"
    /\ SolveIter_pull
    /\ call' = IF is_some(last_pull') THEN call ELSE last_unwrap(call, yielded')

\* hint, from the first pull up to the return or to the second pull
hint_first_item(c, next_item) ==
    IF ~is_some(next_item) THEN Returned(Printed(c, NoNextStep))
    ELSE IF ~is_some(unwrap(next_item).next_heuristic)
    THEN Returned(Printed(c, NoNextStep))
    ELSE LET item == unwrap(next_item)
             h == heuristics[unwrap(item.next_heuristic)]
             shown == IF c.args[1] \in {"Both", "Heuristic"}
                      THEN Printed(Printed(c,
                               PrintState(item.solve_state,
                                          seen_coords(h, board, item.solve_state))),
                               PrintDescription(unwrap(item.next_heuristic)))
                      ELSE c
         IN  IF c.args[1] \notin {"Both", "Result"} THEN Returned(shown)
             ELSE IF ~is_some(changes(h, board, item.solve_state))
             THEN Returned(Printed(shown, NoNextStep))
             ELSE [shown EXCEPT !.outcome = "following"]

\* hint, the first state_iter_items.next() and what follows it
hint_next_item ==
    /\ call.fn = "hint"
    /\ call.outcome = "called"
    /\ SolveIter_pull
    /\ call' = hint_first_item(call, last_pull')

\* hint, the second state_iter_items.next(): the state of the following item
\* is printed with the changed coordinates of the first rule highlighted
hint_following_item ==
    /\ call.fn = "hint"
    /\ call.outcome = "following"
    /\ SolveIter_pull
    /\ call' =
         IF ~is_some(last_pull') THEN Returned(Printed(call, NoNextStep))
         ELSE Returned(Printed(call,
                  PrintState(unwrap(last_pull').solve_state,
                             changed_coords(unwrap(changes(
                                 heuristics[unwrap(yielded[1].next_heuristic)],
                                 board, yielded[1].solve_state))))))

NextFlow == solve \/ hint_next_item \/ hint_following_item

SpecFlow == InitFlow /\ [][NextFlow]_vars

(* ---------------------------- Two iterators ---------------------------- *)

\* a second solve_iter(..) on the same SolveState, strategy and catalog: its
\* solve_state and done fields, and the items it has yielded
SecondIter(sq) ==
    [fn |-> "solve_iter", args |-> <<>>, outcome |-> "iterating",
     value |-> Some([solve_state |-> sq, done |-> FALSE, yielded |-> <<>>]),
     panic |-> ""]

InitPair ==
    \E lines_in \in BoardInputs :
      \E b \in {Board_from_str(lines_in)} :
        \E hs \in {all_heuristics(b)} :
          \E strategy \in SolveStrategy :
            \E qf_squares \in InputSquaresOf(b, PairMarked, PairMarked) :
              /\ board = b
              /\ heuristics = hs
              /\ squares = SolveState_from_queens_file(b, qf_squares)
              /\ initial = squares
              /\ solve_strategy = strategy
              /\ done = FALSE
              /\ yielded = <<>>
              /\ last_pull = None
              /\ pulls = 0
              /\ none_pulls = 0
              /\ call = SecondIter(squares)

\* the pull of the second iterator returns None
SecondReturnNone == call' = [call EXCEPT !.outcome = "ended"]

\* the second iterator is left with squares sq and done dn, and returns item
SecondReturnSome(it, sq, dn, item) ==
    call' = [call EXCEPT !.value = Some([solve_state |-> sq, done |-> dn,
                                         yielded |-> Append(it.yielded, item)])]

\* SolveIter::next on the second iterator
SolveIter_next_second ==
    /\ call.fn = "solve_iter"
    /\ call.outcome = "iterating"
    /\ UNCHANGED <<board, squares, solve_strategy, heuristics, done,
                   initial, yielded, last_pull, pulls, none_pulls>>
    /\ \E it \in {unwrap(call.value)} :
          IF it.done THEN SecondReturnNone
          ELSE IF complete(board, it.solve_state)
          THEN SecondReturnSome(it, it.solve_state, TRUE,
                                SolveIterItem(it.solve_state, None))
          ELSE \E h \in {next_heuristic(board, it.solve_state, solve_strategy,
                                        heuristics)} :
                 IF ~is_some(h) THEN SecondReturnNone
                 ELSE \E c \in {changes(heuristics[unwrap(h)], board, it.solve_state)} :
                        IF ~is_some(c) THEN SecondReturnNone
                        ELSE \E sq \in {apply_changes(board, it.solve_state, unwrap(c))} :
                               SecondReturnSome(it, sq, it.done,
                                                step_item(it.solve_state, sq, h))

NextPair == SolveIter_next \/ SolveIter_next_second

SpecPair == InitPair /\ [][NextPair]_vars

(* ---------------------------- Properties ------------------------------- *)

AllUnknown == initial = SolveState_from_board(board)

Last(s) == s[Len(s)]

\* the pull has ended the sequence on an incomplete state
Stalled == pulls > 0 /\ last_pull = None /\ ~done

\* the positions of the catalog entries that fire on sq
firing(b, sq, hs) == {i \in 1 .. Len(hs) : is_some(changes(hs[i], b, sq))}

\* C1: every state yielded by the solve iterator from an initial state that
\* satisfies is_valid (all-unknown, or normalised pre-filled annotations)
\* satisfies is_valid.
C1_YieldedStatesValid ==
    is_valid(board, initial) =>
        \A i \in 1 .. Len(yielded) : is_valid(board, yielded[i].solve_state)

\* a run from pre-filled annotations holding a queen in which the iterator
\* has placed a further queen
C1_Witness ==
    /\ is_valid(board, initial)
    /\ \E i \in 1 .. Len(initial) : initial[i] = Queen
    /\ yielded /= <<>>
    /\ \E i \in 1 .. Len(initial) :
          initial[i] /= Queen /\ Last(yielded).solve_state[i] = Queen

\* every member of the elimination set of every queen of sq is eliminated
borders_eliminated(b, sq) ==
    \A coord \in b.coords :
        square(b, sq, coord) = Queen =>
            \A d \in queen_borders(b, coord) : square(b, sq, d) = X

\* C2: in every state the iterator reaches from an all-unknown SolveState,
\* every member of the elimination set of every queen is eliminated.
C2_QueenBordersEliminated ==
    AllUnknown =>
        /\ borders_eliminated(board, squares)
        /\ \A i \in 1 .. Len(yielded) : borders_eliminated(board, yielded[i].solve_state)

\* a run from all-unknown that has placed two queens
C2_Witness ==
    /\ AllUnknown
    /\ Cardinality({i \in 1 .. Len(squares) : squares[i] = Queen}) >= 2

\* C3: whenever next_heuristic returns a rule, the changes of that rule on the
\* same state is Some.
C3_SelectorAgreement ==
    LET h == next_heuristic(board, squares, solve_strategy, heuristics)
    IN  is_some(h) => is_some(changes(heuristics[unwrap(h)], board, squares))

\* the selector returns a rule while the first catalog entry does not fire
C3_Witness ==
    /\ is_some(next_heuristic(board, squares, solve_strategy, heuristics))
    /\ ~is_some(changes(heuristics[1], board, squares))
    /\ pulls > 0

\* C4: the first yielded item holds the initial state; an item carrying a rule
\* is followed by the state obtained by apply_changes of the Changes that rule
\* proposes on the item's state.
C4_StepRelation ==
    /\ yielded /= <<>> => yielded[1].solve_state = initial
    /\ \A i \in 1 .. Len(yielded) :
          is_some(yielded[i].next_heuristic) =>
             LET c == changes(heuristics[unwrap(yielded[i].next_heuristic)],
                              board, yielded[i].solve_state)
                 after == IF i < Len(yielded) THEN yielded[i + 1].solve_state
                          ELSE squares
             IN  is_some(c) /\ after = apply_changes(board, yielded[i].solve_state, unwrap(c))

\* three items have been yielded, the first two carrying a rule
C4_Witness ==
    /\ Len(yielded) >= 3
    /\ is_some(yielded[1].next_heuristic)
    /\ is_some(yielded[2].next_heuristic)

\* C5: a pull on a complete state yields the one final item (that state, no
\* rule) and marks the iterator done; every pull of a done iterator produces
\* nothing; an item with no rule is the last item.
C5_FinalItem ==
    [][/\ (~done /\ complete(board, squares)) =>
              /\ last_pull' = Some(SolveIterItem(squares, None))
              /\ yielded' = Append(yielded, SolveIterItem(squares, None))
              /\ done'
       /\ done => (last_pull' = None /\ yielded' = yielded /\ done')
       /\ \A i \in 1 .. Len(yielded') :
              ~is_some(yielded'[i].next_heuristic) => i = Len(yielded')]_vars

\* the final item has been yielded after steps and a later pull produced nothing
C5_Witness ==
    /\ done
    /\ Len(yielded) >= 2
    /\ ~is_some(Last(yielded).next_heuristic)
    /\ last_pull = None
    /\ none_pulls >= 2

\* C6: a pull on an incomplete state on which no catalog rule fires produces
\* nothing and leaves the iterator unchanged, and once a pull has produced
\* nothing every later pull produces nothing.
C6_StallTerminal ==
    [][/\ (~done /\ ~complete(board, squares) /\ firing(board, squares, heuristics) = {}) =>
              /\ last_pull' = None
              /\ yielded' = yielded
              /\ squares' = squares
              /\ done' = done
       /\ (pulls > 0 /\ last_pull = None) =>
              (last_pull' = None /\ yielded' = yielded)]_vars

\* the run has stalled after at least one step and has been pulled again
C6_Witness ==
    /\ Stalled
    /\ ~complete(board, squares)
    /\ yielded /= <<>>
    /\ none_pulls >= 2

\* C7: when no heuristic is found for the current state, solved or stuck, the
\* iterator yields an item holding that state with no rule, so the last
\* yielded item of a run that has ended carries the state reached.
C7_LastItemHoldsFinalState ==
    (pulls > 0 /\ last_pull = None) =>
        /\ yielded /= <<>>
        /\ Last(yielded) = SolveIterItem(squares, None)

ImpossibleBoard ==
    <<"w", "w", "w", "w", "k", "k", "k", "k", "r", "r", "r", "r", "b", "b", "b", "b">>

\* C8: on the board wwww/kkkk/rrrr/bbbb started all-unknown no catalog rule
\* fires, the Fast iterator yields nothing on its first pull, and no strategy
\* reaches a complete state.
C8_ImpossibleBoardStuck ==
    (board.colors = ImpossibleBoard /\ AllUnknown) =>
        /\ pulls = 0 => firing(board, squares, heuristics) = {}
        /\ (solve_strategy = Fast /\ pulls >= 1) => (yielded = <<>> /\ last_pull = None)
        /\ ~complete(board, squares)
        /\ \A i \in 1 .. Len(yielded) : ~complete(board, yielded[i].solve_state)

\* the Fast iterator has been pulled on that board
C8_Witness ==
    /\ board.colors = ImpossibleBoard
    /\ AllUnknown
    /\ solve_strategy = Fast
    /\ pulls >= 1

\* the placements of one queen per row, column and color with no two queens
\* adjacent; p[r + 1] is the column of the queen of row r
solutions(b) ==
    {p \in [1 .. b.size -> 0 .. b.size - 1] :
        /\ \A r1, r2 \in 1 .. b.size : r1 /= r2 => p[r1] /= p[r2]
        /\ \A r \in 1 .. b.size - 1 : p[r] - p[r + 1] \notin {-1, 0, 1}
        /\ \A r1, r2 \in 1 .. b.size :
              r1 /= r2 => color(b, <<r1 - 1, p[r1]>>) /= color(b, <<r2 - 1, p[r2]>>)
        /\ Len(all_colors(b)) = b.size}

RECURSIVE reach(_, _, _, _)
\* the states reached from frontier by firing catalog rules in any order,
\* added to seen; a complete state is not expanded
reach(b, hs, frontier, seen) ==
    IF frontier = {} THEN seen
    ELSE LET succ == UNION {{apply_changes(b, sq, unwrap(changes(hs[i], b, sq))) :
                                i \in firing(b, sq, hs)} :
                            sq \in {f \in frontier : ~complete(b, f)}}
         IN  reach(b, hs, succ \ (seen \cup frontier), seen \cup frontier)

\* some order of firing catalog rules leads from all-unknown to a complete state
catalog_can_reach(b, hs) ==
    \E sq \in reach(b, hs, {SolveState_from_board(b)}, {}) : complete(b, sq)

\* the sequence has ended: a pull has returned None
Ended == pulls > 0 /\ last_pull = None

\* C9: on a board with a unique solution that the catalog can reach, the run
\* from all-unknown under each strategy ends with a final yielded state that
\* is complete.
C9_AllStrategiesSolve ==
    (/\ AllUnknown
     /\ Ended
     /\ Cardinality(solutions(board)) = 1
     /\ catalog_can_reach(board, heuristics)) =>
        /\ yielded /= <<>>
        /\ complete(board, Last(yielded).solve_state)

\* a run under Simple on such a 4x4 board has ended
C9_Witness ==
    /\ AllUnknown
    /\ Ended
    /\ board.size = 4
    /\ solve_strategy = Simple
    /\ Cardinality(solutions(board)) = 1
    /\ catalog_can_reach(board, heuristics)

\* C10: under Fast, next_heuristic returns the firing catalog entry of lowest
\* position, and None exactly when no catalog entry fires.
C10_FastFirstFiring ==
    LET f == firing(board, squares, heuristics)
        h == next_heuristic(board, squares, Fast, heuristics)
    IN  IF f = {} THEN h = None
        ELSE h = Some(CHOOSE i \in f : \A j \in f : i <= j)

\* a state of a Fast run on which several rules fire, the first entry not
\* among them
C10_Witness ==
    /\ solve_strategy = Fast
    /\ pulls > 0
    /\ Cardinality(firing(board, squares, heuristics)) >= 2
    /\ 1 \notin firing(board, squares, heuristics)

\* the changes catalog entry i makes on the current state (entry i fires)
changes_at(i) ==
    unwrap(changes(heuristics[i], board, squares))

\* whether the firing catalog entry i places a queen
places_queen(i) ==
    changes_at(i).kind = "AddQueen"

\* C11: in a run under Short, next_heuristic returns a rule that fires whose key
\* (places a queen?, number of changed coordinates) is not below the key of
\* any firing rule; an elimination-only rule is never returned while a
\* queen-placing rule fires.
C11_ShortMaxKey ==
    LET key(c) == <<IF c.kind = "AddQueen" THEN 1 ELSE 0,
                    Cardinality(changed_coords(c))>>
    IN  solve_strategy = Short =>
        \A h \in {next_heuristic(board, squares, Short, heuristics)} :
            IF ~is_some(h)
            THEN \A i \in 1 .. Len(heuristics) :
                    changes(heuristics[i], board, squares) = None
            ELSE \A ch \in {changes(heuristics[unwrap(h)], board, squares)} :
                    /\ is_some(ch)
                    /\ \A i \in 1 .. Len(heuristics) :
                       \A ci \in {changes(heuristics[i], board, squares)} :
                           is_some(ci) =>
                               /\ ~tuple_lt(key(unwrap(ch)), key(unwrap(ci)))
                               /\ unwrap(ci).kind = "AddQueen" =>
                                      unwrap(ch).kind = "AddQueen"

\* a state of a Short run on which a queen-placing rule fires together with
\* an elimination-only rule that changes more coordinates
C11_Witness ==
    /\ solve_strategy = Short
    /\ pulls > 0
    /\ \E i, j \in firing(board, squares, heuristics) :
           /\ places_queen(i)
           /\ ~places_queen(j)
           /\ Cardinality(changed_coords(changes_at(j)))
                  > Cardinality(changed_coords(changes_at(i)))

\* the number of board squares the catalog entry i did not examine
not_examined(i) ==
    square_count(board) - Cardinality(seen_coords(heuristics[i], board, squares))

\* C12: in a run under Simple, next_heuristic returns a rule that fires whose key
\* (places a queen?, number of squares not examined, number of changed
\* coordinates) is not below the key of any firing rule; among firing rules of
\* its own kind it examined no more squares than any other.
C12_SimpleMaxKey ==
    LET key(i, c) == <<IF c.kind = "AddQueen" THEN 1 ELSE 0,
                       not_examined(i),
                       Cardinality(changed_coords(c))>>
    IN  solve_strategy = Simple =>
        \A h \in {next_heuristic(board, squares, Simple, heuristics)} :
            IF ~is_some(h)
            THEN \A i \in 1 .. Len(heuristics) :
                    changes(heuristics[i], board, squares) = None
            ELSE \A ch \in {changes(heuristics[unwrap(h)], board, squares)} :
                    /\ is_some(ch)
                    /\ \A kh \in {key(unwrap(h), unwrap(ch))} :
                       \A i \in 1 .. Len(heuristics) :
                       \A ci \in {changes(heuristics[i], board, squares)} :
                           is_some(ci) =>
                               \A ki \in {key(i, unwrap(ci))} :
                                   /\ ~tuple_lt(kh, ki)
                                   /\ ki[1] = kh[1] => kh[2] >= ki[2]

\* a state of a Simple run on which two rules of the same kind fire that
\* examined different numbers of squares, the one that examined more changing
\* more coordinates
C12_Witness ==
    /\ solve_strategy = Simple
    /\ pulls > 0
    /\ \E i, j \in firing(board, squares, heuristics) :
           /\ places_queen(i) = places_queen(j)
           /\ not_examined(i) > not_examined(j)
           /\ Cardinality(changed_coords(changes_at(j)))
                  > Cardinality(changed_coords(changes_at(i)))

\* the catalog entries of a family
entries_of(kind) ==
    {i \in 1 .. Len(heuristics) : heuristics[i].kind = kind}

\* the unknown squares of the current state
unknowns ==
    {coord \in board.coords : square(board, squares, coord) = None}

\* C13: a last-square-available rule over a subset with exactly one unknown
\* member proposes a queen there, with X exactly the unknown members of that
\* square's elimination set; with no or several unknown members it proposes
\* nothing.
C13_LastSquareAvailable ==
    \A i \in entries_of("LastSquareAvailable") :
        \A u \in {heuristics[i].coords \cap unknowns} :
        \A r \in {LastSquareAvailable_changes(heuristics[i], board, squares)} :
            IF Cardinality(u) = 1
            THEN \E q \in u :
                    r = Some(AddQueen(q, queen_borders(board, q) \cap unknowns))
            ELSE r = None

\* in one state a last-square-available rule fires with eliminations, another
\* has no unknown member and another has several
C13_Witness ==
    /\ pulls > 0
    /\ \E i, j, k \in entries_of("LastSquareAvailable") :
           /\ Cardinality(heuristics[i].coords \cap unknowns) = 1
           /\ changes_at(i).x /= {}
           /\ heuristics[j].coords \cap unknowns = {}
           /\ Cardinality(heuristics[k].coords \cap unknowns) >= 2

\* the coordinates in the elimination set of every member of cs
common_borders(cs) ==
    {d \in board.coords : \A c \in cs : d \in queen_borders(board, c)}

\* C14: an all-possibilities-eliminate-square rule eliminates exactly the
\* unknown coordinates lying in the elimination set of every unknown member of
\* its subset, and proposes nothing when there is no such coordinate or the
\* subset has no unknown member.
C14_AllPossibilitiesEliminateSquare ==
    \A i \in entries_of("AllPossibilitiesEliminateSquare") :
        \A u \in {heuristics[i].coords \cap unknowns} :
        \A r \in {AllPossibilitiesEliminateSquare_changes(heuristics[i], board, squares)} :
            IF u = {} THEN r = None
            ELSE \A x \in {common_borders(u) \cap unknowns} :
                    IF x = {} THEN r = None ELSE r = Some(AddX(x))

\* in one state an all-possibilities rule fires over a subset with several
\* unknown members and a known one, another has no unknown member, and another
\* has unknown members with no common unknown square
C14_Witness ==
    /\ pulls > 0
    /\ unknowns /= {}
    /\ \E i, j, k \in entries_of("AllPossibilitiesEliminateSquare") :
           /\ changes(heuristics[i], board, squares) /= None
           /\ Cardinality(heuristics[i].coords \cap unknowns) >= 2
           /\ heuristics[i].coords \ unknowns /= {}
           /\ heuristics[j].coords \cap unknowns = {}
           /\ heuristics[k].coords \cap unknowns /= {}
           /\ changes(heuristics[k], board, squares) = None

\* the squares of the lines of a rows or columns rule
group_of(h) ==
    UNION {h.lines[n] : n \in 1 .. Len(h.lines)}

\* C15: an N-lines-contain-only-N-colors rule over k rows or columns proposes
\* nothing when a square of the group holds a queen or the unknown squares of
\* the group show more than k colors; otherwise it eliminates exactly the
\* unknown squares outside the group whose color is one of those colors, and
\* proposes nothing when there is none.
C15_NLinesContainOnlyNColors ==
    \A i \in entries_of("NLinesContainOnlyNColors") :
        \A g \in {group_of(heuristics[i])} :
        \A r \in {NLinesContainOnlyNColors_changes(heuristics[i], board, squares)} :
        \A shown \in {{color(board, c) : c \in g \cap unknowns}} :
            IF \/ \E c \in g : square(board, squares, c) = Queen
               \/ Cardinality(shown) > Len(heuristics[i].lines)
            THEN r = None
            ELSE \A x \in {{c \in unknowns \ g : color(board, c) \in shown}} :
                    IF x = {} THEN r = None ELSE r = Some(AddX(x))

\* in one state a rule over two lines fires, another rule is held back by a
\* queen in its lines although their unknown squares show few enough colors,
\* and another by the number of colors
C15_Witness ==
    /\ pulls > 0
    /\ \E i, j, k \in entries_of("NLinesContainOnlyNColors") :
           /\ Len(heuristics[i].lines) = 2
           /\ changes(heuristics[i], board, squares) /= None
           /\ \E c \in group_of(heuristics[j]) : square(board, squares, c) = Queen
           /\ group_of(heuristics[j]) \cap unknowns /= {}
           /\ \E c \in unknowns \ group_of(heuristics[j]) :
                  color(board, c) \in
                      {color(board, d) : d \in group_of(heuristics[j]) \cap unknowns}
           /\ Cardinality({color(board, c) : c \in group_of(heuristics[j]) \cap unknowns})
                  <= Len(heuristics[j].lines)
           /\ \A c \in group_of(heuristics[k]) : square(board, squares, c) /= Queen
           /\ Cardinality({color(board, c) : c \in group_of(heuristics[k]) \cap unknowns})
                  > Len(heuristics[k].lines)

\* the squares of the colors of an N-colors rule
squares_of(h) ==
    {c \in board.coords : color(board, c) \in h.colors}

\* the lines, in the orientation of an N-colors rule, of a set of squares
lines_of(h, cs) ==
    {IF h.liner = "rows" THEN c[1] ELSE c[2] : c \in cs}

\* C16: an N-colors-only-appear-in-N-lines rule over k colors and an
\* orientation proposes nothing when a square of those colors holds a queen or
\* their unknown squares span more than k lines; otherwise it eliminates
\* exactly the unknown squares of every other color in the spanned lines, and
\* proposes nothing when there is none.
C16_NColorsOnlyAppearInNLines ==
    \A i \in entries_of("NColorsOnlyAppearInNLines") :
        \A s \in {squares_of(heuristics[i])} :
        \A r \in {NColorsOnlyAppearInNLines_changes(heuristics[i], board, squares)} :
        \A spanned \in {lines_of(heuristics[i], s \cap unknowns)} :
            IF \/ \E c \in s : square(board, squares, c) = Queen
               \/ Cardinality(spanned) > Cardinality(heuristics[i].colors)
            THEN r = None
            ELSE \A x \in {{c \in unknowns \ s : lines_of(heuristics[i], {c}) \subseteq spanned}} :
                    IF x = {} THEN r = None ELSE r = Some(AddX(x))

\* in one state a rule over two colors fires, another rule is held back by a
\* queen on its colors although their unknown squares span few enough lines
\* that hold other unknown squares, and another by the number of lines
C16_Witness ==
    /\ pulls > 0
    /\ \E i, j, k \in entries_of("NColorsOnlyAppearInNLines") :
           /\ Cardinality(heuristics[i].colors) = 2
           /\ changes(heuristics[i], board, squares) /= None
           /\ \E c \in squares_of(heuristics[j]) : square(board, squares, c) = Queen
           /\ squares_of(heuristics[j]) \cap unknowns /= {}
           /\ Cardinality(lines_of(heuristics[j], squares_of(heuristics[j]) \cap unknowns))
                  <= Cardinality(heuristics[j].colors)
           /\ \E c \in unknowns \ squares_of(heuristics[j]) :
                  lines_of(heuristics[j], {c}) \subseteq
                      lines_of(heuristics[j], squares_of(heuristics[j]) \cap unknowns)
           /\ \A c \in squares_of(heuristics[k]) : square(board, squares, c) /= Queen
           /\ Cardinality(lines_of(heuristics[k], squares_of(heuristics[k]) \cap unknowns))
                  > Cardinality(heuristics[k].colors)

\* the position of a rule family in the catalog
family(kind) ==
    CASE kind = "LastSquareAvailable" -> 1
      [] kind = "AllPossibilitiesEliminateSquare" -> 2
      [] kind = "NLinesContainOnlyNColors" -> 3
      [] kind = "NColorsOnlyAppearInNLines" -> 4

\* the distinct colors of the board
board_colors ==
    {board.colors[i] : i \in 1 .. Len(board.colors)}

\* the non-empty sets of line numbers of size at most floor(N/2)
line_subsets ==
    {ll \in SUBSET (0 .. board.size - 1) :
        ll /= {} /\ Cardinality(ll) <= board.size \div 2}

\* the number of colors, rows and columns whose squares are the set cs
lines_and_colors_equal_to(cs) ==
    Cardinality({clr \in board_colors : coords_for_color(board, clr) = cs})
        + Cardinality({r \in 0 .. board.size - 1 : row_coords(board, r) = cs})
        + Cardinality({c \in 0 .. board.size - 1 : col_coords(board, c) = cs})

\* C17: the catalog of a board of size N with C colors lists the families in
\* the order last-square-available, all-possibilities-eliminate-square,
\* N-lines-contain-only-N-colors, N-colors-only-appear-in-N-lines; it holds
\* one rule of each of the first two families per color, per row and per
\* column, one rows rule and one columns rule of the third per non-empty line
\* subset of size at most floor(N/2), and one rule of the fourth per non-empty
\* color subset and orientation: 2(C+2N) + 2*(line subsets) + 2*(2^C - 1)
\* rules.  (As many rules of a family as it has subsets, and every subset
\* among them, is one rule per subset.)
C17_CatalogGeneration ==
    /\ \A i \in 1 .. Len(heuristics) - 1 :
           family(heuristics[i].kind) <= family(heuristics[i + 1].kind)
    /\ \A kind \in {"LastSquareAvailable", "AllPossibilitiesEliminateSquare"} :
           /\ Cardinality(entries_of(kind)) = Cardinality(board_colors) + 2 * board.size
           /\ \A i \in entries_of(kind) :
                  Cardinality({j \in entries_of(kind) :
                                 heuristics[j].coords = heuristics[i].coords})
                      = lines_and_colors_equal_to(heuristics[i].coords)
    /\ Cardinality(entries_of("NLinesContainOnlyNColors")) = 2 * Cardinality(line_subsets)
    /\ {<<Len(heuristics[i].lines),
           {heuristics[i].lines[n] : n \in 1 .. Len(heuristics[i].lines)}>> :
              i \in entries_of("NLinesContainOnlyNColors")}
         = {<<Cardinality(ll), {row_coords(board, l) : l \in ll}>> : ll \in line_subsets}
             \cup {<<Cardinality(ll), {col_coords(board, l) : l \in ll}>> :
                      ll \in line_subsets}
    /\ Cardinality(entries_of("NColorsOnlyAppearInNLines"))
           = 2 * (Cardinality(SUBSET board_colors) - 1)
    /\ {<<heuristics[i].colors, heuristics[i].liner>> :
              i \in entries_of("NColorsOnlyAppearInNLines")}
         = ((SUBSET board_colors) \ {{}}) \X {"rows", "cols"}
    /\ Len(heuristics) = 2 * (Cardinality(board_colors) + 2 * board.size)
                             + 2 * Cardinality(line_subsets)
                             + 2 * (2 ^ Cardinality(board_colors) - 1)

\* the catalog of a 4x4 board with five colors, which holds rules over two
\* lines and over all five colors
C17_Witness ==
    /\ board.size = 4
    /\ Cardinality(board_colors) = 5
    /\ \E i \in entries_of("NLinesContainOnlyNColors") : Len(heuristics[i].lines) = 2
    /\ \E i \in entries_of("NColorsOnlyAppearInNLines") : heuristics[i].colors = board_colors
    /\ Len(heuristics) = 2 * (5 + 8) + 2 * 10 + 2 * 31

\* every queen of the annotations before is a queen after, and every
\* eliminated square is eliminated after
monotone(before, after) ==
    \A i \in 1 .. Len(before) :
        /\ before[i] = Queen => after[i] = Queen
        /\ before[i] = X => after[i] = X

\* C18: along a run a square that is queen stays queen and a square that is
\* eliminated stays eliminated, in the iterator's state and from every yielded
\* state on; applying the Changes of any firing catalog rule reverses no queen
\* and un-eliminates no square.
C18_MonotoneAnnotations ==
    [][/\ monotone(squares, squares')
       /\ \A k \in 1 .. Len(yielded') :
              monotone(yielded'[k].solve_state, squares')
       /\ \A i \in firing(board, squares, heuristics) :
              monotone(squares, apply_changes(board, squares, changes_at(i)))]_vars

\* a run from a pre-filled state has placed a queen and eliminated squares
\* over three steps
C18_Witness ==
    /\ Len(yielded) >= 3
    /\ \E i \in 1 .. Len(initial) : initial[i] = Queen
    /\ \E i \in 1 .. Len(initial) : initial[i] = X
    /\ \E i \in 1 .. Len(initial) : initial[i] = None /\ squares[i] = Queen
    /\ \E i \in 1 .. Len(initial) : initial[i] = None /\ squares[i] = X

\* a call of SolveState::from has returned
from_returned ==
    call.fn = "SolveState::from" /\ call.outcome = "returned"

\* the annotations SolveState::from was called on, one per square
from_input ==
    IF is_some(call.args[2]) THEN unwrap(call.args[2])
    ELSE [i \in 1 .. square_count(call.args[1]) |-> None]

\* the squares in the elimination set of some pre-marked queen
marked_borders ==
    UNION {queen_borders(call.args[1], q) :
              q \in {c \in call.args[1].coords : square(call.args[1], from_input, c) = Queen}}

\* C19 as claimed: in the state built by SolveState::from every member of the
\* elimination set of a pre-marked queen is eliminated, whatever the input
\* gave it, and every other square keeps its input annotation.
C19_EveryMemberEliminated ==
    from_returned =>
        \A c \in call.args[1].coords :
            square(call.args[1], unwrap(call.value), c) =
                IF c \in marked_borders THEN X
                ELSE square(call.args[1], from_input, c)

\* C19: in the state built by SolveState::from every member of the
\* elimination set of a pre-marked queen that the input left unknown or
\* eliminated is eliminated, a member the input marked queen stays queen, and
\* every other square keeps its input annotation.
C19_UnknownMembersEliminated ==
    from_returned =>
        \A c \in call.args[1].coords :
            square(call.args[1], unwrap(call.value), c) =
                IF c \in marked_borders /\ square(call.args[1], from_input, c) /= Queen
                THEN X
                ELSE square(call.args[1], from_input, c)

\* SolveState::from has returned on a 4x4 board with two pre-marked queens,
\* one in the elimination set of the other, and an unknown square in it
C19_Witness ==
    /\ from_returned
    /\ call.args[1].size = 4
    /\ \E q1, q2, c \in call.args[1].coords :
           /\ square(call.args[1], from_input, q1) = Queen
           /\ square(call.args[1], from_input, q2) = Queen
           /\ q2 \in queen_borders(call.args[1], q1)
           /\ c \in queen_borders(call.args[1], q1)
           /\ square(call.args[1], from_input, c) = None
           /\ square(call.args[1], unwrap(call.value), c) = X

\* a call of Board::new has ended
new_ended ==
    call.fn = "Board::new" /\ call.outcome /= "called"

\* C20 as claimed: Board::new called with colors.len() /= size * size returns,
\* and what it returns is an error value and no Board.
C20_WrongSizeReturnsError ==
    (new_ended /\ Len(call.args[2]) /= call.args[1] * call.args[1]) =>
        /\ call.outcome = "returned"
        /\ call.value = None

\* C20: Board::new called with colors.len() /= size * size panics and yields
\* no Board; called with colors.len() = size * size on a size within the
\* bitset capacity it returns the Board of that size and those colors.
C20_WrongSizePanics ==
    new_ended =>
        IF Len(call.args[2]) /= call.args[1] * call.args[1]
        THEN call.outcome = "panicked" /\ call.value = None
        ELSE call.args[1] <= CoordSetRows =>
                 /\ call.outcome = "returned"
                 /\ is_some(call.value)
                 /\ unwrap(call.value).size = call.args[1]
                 /\ unwrap(call.value).colors = call.args[2]

\* Board::new has panicked on a size of 2 given three or five colors, one
\* short of or one beyond the four needed
C20_Witness ==
    /\ new_ended
    /\ call.outcome = "panicked"
    /\ call.args[1] = 2
    /\ Len(call.args[2]) \in {3, 5}

built_boards ==
    IF call.fn = "Board::new" /\ call.outcome = "returned" THEN {unwrap(call.value)}
    ELSE IF call.fn = "SolveState::from" THEN {call.args[1]}
    ELSE {}

\* d is one of the up to eight squares around c
adjacent(c, d) ==
    /\ c /= d
    /\ c[1] - d[1] \in {-1, 0, 1}
    /\ c[2] - d[2] \in {-1, 0, 1}

\* C22: the precomputed elimination set of a square c is exactly the set of
\* the squares other than c in c's row, column or color or adjacent to c; it
\* does not contain c, and d is in the set of c iff c is in the set of d.
C22_QueenBorders ==
    \A b \in built_boards :
        \A c \in all_coords_of(b.size) :
            /\ queen_borders(b, c) =
                   {d \in all_coords_of(b.size) \ {c} :
                       \/ d[1] = c[1]
                       \/ d[2] = c[2]
                       \/ color(b, d) = color(b, c)
                       \/ adjacent(c, d)}
            /\ c \notin queen_borders(b, c)
            /\ \A d \in all_coords_of(b.size) :
                   d \in queen_borders(b, c) <=> c \in queen_borders(b, d)

\* the Board of a 4x4 QueensFile with five colors has a square that
\* eliminates another only as its diagonal neighbour, one only by its color
\* and one only by its row
C22_Witness ==
    /\ call.fn = "SolveState::from"
    /\ call.outcome = "returned"
    /\ \E b \in built_boards :
           /\ b.size = 4
           /\ Cardinality({b.colors[i] : i \in 1 .. Len(b.colors)}) = 5
           /\ \E c, d, e, f \in b.coords :
                  /\ {d, e, f} \subseteq queen_borders(b, c)
                  /\ d[1] /= c[1] /\ d[2] /= c[2] /\ color(b, d) /= color(b, c)
                  /\ e[1] /= c[1] /\ e[2] /= c[2] /\ ~adjacent(c, e)
                  /\ f[1] = c[1] /\ ~adjacent(c, f) /\ color(b, f) /= color(b, c)

\* the render-and-parse of a SolveState has ended
reparse_ended ==
    call.fn = "QueensFile::from_str" /\ call.outcome /= "called"

\* C23: rendering a SolveState with Display and parsing the text again as a
\* QueensFile and SolveState succeeds and gives every square the annotation
\* it had.
C23_RoundTrip ==
    reparse_ended =>
        /\ call.outcome = "returned"
        /\ call.value = Some(call.args[2])

\* a LineSet or CoordSet has been built
set_built ==
    /\ call.fn \in {"LineSet::from_iter", "CoordSet::from_iter"}
    /\ call.outcome /= "called"

\* the distinct elements the set was built from
distinct_elems == {call.args[1][i] : i \in 1 .. Len(call.args[1])}

\* ascending order of lines, and of coords by row, then column
elem_lt(a, b) ==
    IF call.fn = "LineSet::from_iter" THEN a < b
    ELSE a[1] < b[1] \/ (a[1] = b[1] /\ a[2] < b[2])

\* items is strictly ascending
ascending(items) ==
    \A i \in 1 .. Len(items) - 1 : elem_lt(items[i], items[i + 1])

\* C24: a LineSet or CoordSet built from a sequence of in-range elements is
\* the set of its distinct elements: len is their number, contains holds
\* exactly for them, and every iteration yields each of them once, in
\* ascending order, the same sequence each time.
C24_SetOfDistinctElements ==
    set_built =>
        \E it \in {unwrap(call.value)} :
            /\ IF call.fn = "LineSet::from_iter"
               THEN /\ LineSet_len(it.set) = Cardinality(distinct_elems)
                    /\ \A l \in 0 .. CoordSetBits - 1 :
                           LineSet_contains(it.set, l) <=> l \in distinct_elems
               ELSE /\ CoordSet_len(it.set) = Cardinality(distinct_elems)
                    /\ \A c \in (0 .. CoordSetRows - 1) \X (0 .. CoordSetBits - 1) :
                           CoordSet_contains(it.set, c) <=> c \in distinct_elems
            /\ ascending(it.items)
            /\ \A i \in 1 .. Len(it.items) : it.items[i] \in distinct_elems
            /\ \A p \in 1 .. Len(it.passes) :
                  /\ ascending(it.passes[p])
                  /\ {it.passes[p][i] : i \in 1 .. Len(it.passes[p])} = distinct_elems
                  /\ it.passes[p] = it.passes[1]

\* a CoordSet built from a sequence with a repeated element, given out of
\* order, has been iterated twice
C24_Witness ==
    /\ set_built
    /\ call.fn = "CoordSet::from_iter"
    /\ Len(call.args[1]) > Cardinality(distinct_elems)
    /\ Cardinality(distinct_elems) > 1
    /\ ~ascending(call.args[1])
    /\ Len(unwrap(call.value).passes) = MaxPasses

\* the second iterator
second == unwrap(call.value)

solution_squares(b) ==
    {{<<r - 1, p[r]>> : r \in 1 .. b.size} : p \in solutions(b)}

\* sq has queens only on squares of S and eliminates no square of S
within_solution(b, sq, S) ==
    \A coord \in b.coords :
        /\ square(b, sq, coord) = Queen => coord \in S
        /\ square(b, sq, coord) = X => coord \notin S

\* the states the iterator has yielded, and the one it holds
states_seen == {yielded[i].solve_state : i \in 1 .. Len(yielded)} \cup {squares}

\* C26: in a run from the all-unknown state, under any strategy, every state
\* has queens only on squares of every full solution of the board and
\* eliminates no square of any; on a board with two or more full solutions
\* no state is complete.
C26_Soundness ==
    AllUnknown =>
        \A sols \in {solution_squares(board)} :
            \A sq \in states_seen :
                /\ \A S \in sols : within_solution(board, sq, S)
                /\ Cardinality(sols) >= 2 => ~complete(board, sq)

\* a run on a board with two full solutions has stalled after six or more
\* eliminating steps
C26_Witness ==
    /\ AllUnknown
    /\ Cardinality(solution_squares(board)) >= 2
    /\ Stalled
    /\ Len(yielded) >= 6
    /\ \E coord \in board.coords : square(board, squares, coord) = X

\* the number of unknown squares of sq
unknown_count(sq) == Cardinality({i \in 1 .. Len(sq) : sq[i] = None})

\* the pull has applied a rule
rule_applied == is_some(last_pull') /\ is_some(unwrap(last_pull').next_heuristic)

\* C27: every rule application by the iterator leaves strictly fewer unknown
\* squares (as would the application of any firing catalog rule), a pull that
\* applies no rule leaves the state as it is, and the iterator never yields
\* more than N*N + 1 items.
C27_Termination ==
    [][/\ rule_applied => unknown_count(squares') < unknown_count(squares)
       /\ ~rule_applied => squares' = squares
       /\ \A i \in firing(board, squares, heuristics) :
              unknown_count(apply_changes(board, squares, changes_at(i)))
                  < unknown_count(squares)
       /\ Len(yielded') <= square_count(board) + 1
       /\ Len(yielded') + unknown_count(squares') <= unknown_count(initial) + 1]_vars

\* a run from a pre-filled state has ended complete after five or more items
C27_Witness ==
    /\ Ended
    /\ done
    /\ ~AllUnknown
    /\ Len(yielded) >= 5

\* C28: in every state of a run, the Changes returned by any catalog rule
\* touches only unknown squares: X holds only unknown squares, X is not empty
\* when the result only eliminates, and the square of a queen placement is
\* unknown and is not in X.
C28_ChangesTouchUnknown ==
    \A i \in 1 .. Len(heuristics) :
        \A c \in {changes(heuristics[i], board, squares)} :
            is_some(c) =>
                /\ unwrap(c).x \subseteq unknowns
                /\ unwrap(c).kind = "AddX" => unwrap(c).x /= {}
                /\ unwrap(c).kind = "AddQueen" =>
                       /\ unwrap(c).queen \in unknowns
                       /\ unwrap(c).queen \notin unwrap(c).x

\* in a state with queens and eliminated squares already marked, one rule
\* places a queen with eliminations and another only eliminates
C28_Witness ==
    /\ \E coord \in board.coords : square(board, squares, coord) = Queen
    /\ \E coord \in board.coords : square(board, squares, coord) = X
    /\ \E i \in firing(board, squares, heuristics) :
           places_queen(i) /\ changes_at(i).x /= {}
    /\ \E i \in firing(board, squares, heuristics) : ~places_queen(i)

\* the squares of sq that hold a queen
queens_of(b, sq) == {coord \in b.coords : square(b, sq, coord) = Queen}

\* sq is a full solution of b: one queen in every row, every column and every
\* color, no two queens adjacent, no square unknown
full_solution(b, sq) ==
    \A qs \in {queens_of(b, sq)} :
        /\ \A r \in 0 .. b.size - 1 : Cardinality({q \in qs : q[1] = r}) = 1
        /\ \A c \in 0 .. b.size - 1 : Cardinality({q \in qs : q[2] = c}) = 1
        /\ \A k \in {b.colors[i] : i \in 1 .. Len(b.colors)} :
               Cardinality({q \in qs : color(b, q) = k}) = 1
        /\ \A q1, q2 \in qs : ~adjacent(q1, q2)
        /\ \A coord \in b.coords : square(b, sq, coord) /= None

\* C29: on a board of size N with exactly N distinct colors, every state of a
\* run from all-unknown for which complete() holds is a full solution.
C29_CompleteIsSolution ==
    (AllUnknown /\ Len(all_colors(board)) = board.size) =>
        \A sq \in states_seen :
            complete(board, sq) => full_solution(board, sq)

\* a run from all-unknown on a board of size four with four colors has
\* yielded a complete state
C29_Witness ==
    /\ AllUnknown
    /\ board.size = 4
    /\ Len(all_colors(board)) = board.size
    /\ done
    /\ complete(board, Last(yielded).solve_state)

\* C30: in every state of a run, whatever the strategy of the run,
\* next_heuristic returns None under Fast exactly when it does under Short
\* and under Simple, and each returns a rule exactly when some catalog rule
\* fires on the state.
C30_StallIndependentOfStrategy ==
    \A fires \in {firing(board, squares, heuristics) /= {}} :
        \A strategy \in SolveStrategy :
            is_some(next_heuristic(board, squares, strategy, heuristics)) <=> fires

\* a run has stalled after three or more steps with squares still unknown: no
\* strategy returns a rule on its state
C30_Witness ==
    /\ Stalled
    /\ Len(yielded) >= 3
    /\ unknowns /= {}
    /\ \A strategy \in SolveStrategy :
           ~is_some(next_heuristic(board, squares, strategy, heuristics))

\* the solve flow has ended
solve_ended == call.fn = "solve" /\ call.outcome \notin {"called"}

\* C31: for every board, also one on which the iterator yields no item, the
\* solve flow ends by returning, having printed a final state, and never
\* aborts.
C31_SolveNeverAborts ==
    solve_ended =>
        /\ call.outcome = "returned"
        /\ Len(unwrap(call.value)) = 1

\* the hint flow has ended after being asked for the result
hint_result_ended ==
    /\ call.fn = "hint"
    /\ call.args[1] \in {"Result", "Both"}
    /\ call.outcome = "returned"

\* the first pull of the hint flow returned an item carrying a rule
first_item_has_rule ==
    yielded /= <<>> /\ is_some(yielded[1].next_heuristic)

\* the lines the flow has printed
printed == {unwrap(call.value)[i] : i \in 1 .. Len(unwrap(call.value))}

\* the Changes of the rule of the first item on the state of the first item
first_changes ==
    unwrap(changes(heuristics[unwrap(yielded[1].next_heuristic)],
                   board, yielded[1].solve_state))

\* C32: when the result is requested and the first pull returns an item
\* carrying a rule, the hint flow prints the state that results from applying
\* the Changes of that rule; it prints "No next step found." only when the
\* first pull returns nothing or an item without a rule.
C32_HintShowsResult ==
    hint_result_ended =>
        /\ first_item_has_rule =>
               \E line \in printed :
                   /\ line.text = "state"
                   /\ line.solve_state =
                          apply_changes(board, yielded[1].solve_state, first_changes)
                   /\ line.highlight = changed_coords(first_changes)
        /\ NoNextStep \in printed => ~first_item_has_rule

\* before and after agree on every square of b outside cs
same_outside(b, before, after, cs) ==
    /\ Len(after) = Len(before)
    /\ \A coord \in b.coords \ cs : square(b, after, coord) = square(b, before, coord)

\* C33: applying the Changes of a catalog rule alters only the squares in its
\* changed_coords: every other square keeps its annotation, in the step the
\* iterator takes and for every firing rule, and the Board stays as it is.
C33_ApplyChangesFrame ==
    [][/\ board' = board
       /\ \A i \in firing(board, squares, heuristics) :
              \A c \in {changes_at(i)} :
                  same_outside(board, squares,
                               apply_changes(board, squares, c), changed_coords(c))
       /\ rule_applied =>
              same_outside(board, squares, squares',
                           changed_coords(changes_at(
                               unwrap(unwrap(last_pull').next_heuristic))))]_vars

\* a rule has been applied to a state that already held queens and
\* eliminated squares, and squares are still unknown after it
C33_Witness ==
    /\ Len(yielded) >= 3
    /\ is_some(Last(yielded).next_heuristic)
    /\ \E coord \in board.coords : square(board, Last(yielded).solve_state, coord) = Queen
    /\ \E coord \in board.coords : square(board, Last(yielded).solve_state, coord) = X
    /\ unknowns /= {}

\* the second component of the Simple key of a rule that has examined seen
simple_component(seen) == simple_key(AddX({}), seen, board)[2]

\* C34: in every state of a run the coordinates examined by any catalog rule
\* are squares of the board, so the component 1 + square_count - |seen| of
\* the Simple key is at least 1 (the subtraction on usize does not underflow)
\* and at most square_count + 1.
C34_SimpleKeyNoUnderflow ==
    \A i \in 1 .. Len(heuristics) :
        \A seen \in {seen_coords(heuristics[i], board, squares)} :
            /\ seen \subseteq board.coords
            /\ simple_component(seen) >= 1
            /\ simple_component(seen) <= square_count(board) + 1

\* in a run under Simple on a board of size four, after a pull, two
\* firing rules have examined different numbers of squares, one of them
\* more than half of the board
C34_Witness ==
    /\ solve_strategy = "Simple"
    /\ board.size = 4
    /\ pulls >= 1
    /\ \E i, j \in firing(board, squares, heuristics) :
           /\ 2 * Cardinality(seen_coords(heuristics[i], board, squares))
                  > square_count(board)
           /\ simple_component(seen_coords(heuristics[i], board, squares))
                  < simple_component(seen_coords(heuristics[j], board, squares))

====
